---- MODULE Spec2Model ----
(***************************************************************************)
(* Task registry, cancellation and progress bus of zinc                    *)
(* (src-tauri/src/commands.rs), together with the two pipelines it spawns  *)
(* (YtDlp::start_download in ytdlp.rs and                                  *)
(* TranscriptionManager::process_video in transcription_manager.rs).       *)
(*                                                                         *)
(* Every critical section of a tokio Mutex is one atomic step.  A step of  *)
(* a pipeline that touches no shared state (a send on its own progress     *)
(* channel, a local computation) is merged with the shared access that     *)
(* precedes it: it commutes with the steps of every other task.            *)
(***************************************************************************)
EXTENDS Integers, Sequences, FiniteSets, TLC

\* Task ids handed out by Uuid::new_v4 (each id is generated at most once).
Ids == {"t1"}

\* Pipeline instances: one per start_download call and one per
\* start_local_transcription call that passes its pending check.
Runs == {"r1"}

\* Pipeline instances when start_local_transcription is invoked concurrently.
RaceRuns == {"r1", "r2"}

\* Lines of yt-dlp output read by one download before EOF.
MaxLines == 2

\* Invocations of cancel_download.
MaxCancels == 2

VARIABLES
    downloads,       \* AppState.downloads: HashMap<String, Download>
    cancel_senders,  \* AppState.cancel_senders: id -> run whose watch::Sender is stored
    flag,            \* value of the watch channel created by each run
    used,            \* ids already generated
    run,             \* per pipeline instance: position, channels, locals
    cancel,          \* the cancel_download invocation in flight
    ncancel,         \* cancel_download invocations started so far
    ev,              \* events emitted to the frontend by the last step
    cancel_req,      \* history: ids cancel_download has been called for
    cancel_ret,      \* history: ids for which a cancel_download that signalled
                     \* the pipeline of a task not yet terminal has returned
    was_completed,   \* history: ids whose status has been "completed"
    eng              \* the transcription engine call in progress: its inputs
                     \* and locals

vars == <<downloads, cancel_senders, flag, used, run, cancel, ncancel, ev,
          cancel_req, cancel_ret, was_completed, eng>>

----------------------------------------------------------------------------
\* Option<T>
None == <<>>
Some(x) == <<x>>

Terminal == {"completed", "error", "cancelled"}

\* format!("transcribing:{}", progress.stage)
TranscribingStatus(stage) ==
    CASE stage = "extracting"   -> "transcribing:extracting"
      [] stage = "preparing"    -> "transcribing:preparing"
      [] stage = "transcribing" -> "transcribing:transcribing"
      [] stage = "embedding"    -> "transcribing:embedding"
      [] stage = "finalizing"   -> "transcribing:finalizing"
      [] stage = "complete"     -> "transcribing:complete"

\* Error strings returned by the pipelines.
CancelledMsg == "Cancelled"
FfmpegMissingMsg == "ffmpeg is required for subtitle generation but was not found. Please install ffmpeg."
EngineMissingMsg == "Engine 'whisper_rs' is not installed"
EmptyTranscriptMsg == "Transcription produced no text. The audio may be silent or corrupted."
BackupFailedMsg == "Failed to backup original: permission denied"
ReplaceFailedMsg == "Failed to replace with subtitled version: permission denied"
DownloadCancelledMsg == "Download cancelled"
MoveFailedMsg == "Failed to move SRT file: permission denied"
PvErrors == {FfmpegMissingMsg, "Audio extraction failed", EngineMissingMsg,
             EmptyTranscriptMsg, MoveFailedMsg, "ffmpeg muxing failed",
             BackupFailedMsg, ReplaceFailedMsg}

\* format!("Subtitle generation failed: {}", e)
SubtitleFailed(e) ==
    CASE e = CancelledMsg -> "Subtitle generation failed: Cancelled"
      [] e = FfmpegMissingMsg ->
            "Subtitle generation failed: ffmpeg is required for subtitle generation but was not found. Please install ffmpeg."
      [] e = "Audio extraction failed" -> "Subtitle generation failed: Audio extraction failed"
      [] e = EngineMissingMsg ->
            "Subtitle generation failed: Engine 'whisper_rs' is not installed"
      [] e = EmptyTranscriptMsg ->
            "Subtitle generation failed: Transcription produced no text. The audio may be silent or corrupted."
      [] e = MoveFailedMsg ->
            "Subtitle generation failed: Failed to move SRT file: permission denied"
      [] e = "ffmpeg muxing failed" -> "Subtitle generation failed: ffmpeg muxing failed"
      [] e = BackupFailedMsg ->
            "Subtitle generation failed: Failed to backup original: permission denied"
      [] e = ReplaceFailedMsg ->
            "Subtitle generation failed: Failed to replace with subtitled version: permission denied"

\* Result<PathBuf, String>
Ok(p) == <<"Ok", p>>
Err(e) == <<"Err", e>>
NoResult == <<"None", "">>

\* TranscribeProgress { stage, progress, message }
TProgress(stage, progress, message) ==
    [stage |-> stage, progress |-> progress, message |-> message]

\* DownloadProgress { download_id, status, progress, speed, eta, filename }
DProgress(id, status, progress, speed, eta, filename) ==
    [download_id |-> id, status |-> status, progress |-> progress,
     speed |-> speed, eta |-> eta, filename |-> filename]

\* The Download built by start_download and add_local_transcription.
NewDownload(id, task_type, output_path, subtitles) ==
    [id |-> id, status |-> "pending", progress |-> 0, speed |-> None,
     eta |-> None, output_path |-> output_path, error |-> None,
     whisper_model |-> IF subtitles THEN Some("base") ELSE None,
     transcription_engine |-> IF subtitles THEN Some("whisper_rs") ELSE None,
     transcription_progress |-> None, transcription_message |-> None,
     task_type |-> task_type]

\* HashMap::insert / HashMap::remove
Insert(m, k, v) == [x \in DOMAIN m \cup {k} |-> IF x = k THEN v ELSE m[x]]
Remove(m, k) == [x \in DOMAIN m \ {k} |-> m[x]]

\* A pipeline instance: its task, its position, the download progress channel
\* (pq), the transcription progress channel (tq) with the number of events
\* sent on it and received from it, the locals of YtDlp::start_download, the
\* files process_video has created, the subprocesses it has spawned and the
\* one it is waiting for, and what the path of the media file holds (video).
IdleRun == [id |-> "", kind |-> "none", pc |-> "idle", subs |-> FALSE,
            pq |-> <<>>, tq |-> <<>>, nsent |-> 0, nrecv |-> 0,
            lines |-> 0, file |-> None, result |-> NoResult,
            files |-> {}, spawned |-> {}, child |-> None,
            video |-> "none"]

NoCancel == [pc |-> "idle", id |-> "", live |-> FALSE]

EmptyMap == [x \in {} |-> x]

\* No engine call is being followed.
NoEngine == [engine |-> "none"]

Init ==
    /\ downloads = EmptyMap
    /\ cancel_senders = EmptyMap
    /\ flag = [r \in Runs |-> FALSE]
    /\ used = {}
    /\ run = [r \in Runs |-> IdleRun]
    /\ cancel = NoCancel
    /\ ncancel = 0
    /\ ev = <<>>
    /\ cancel_req = {}
    /\ cancel_ret = {}
    /\ was_completed = {}
    /\ eng = NoEngine

----------------------------------------------------------------------------
\* Mutations of one Download made inside a critical section of the
\* downloads lock.

\* Download progress forwarder (commands.rs:180-186).
DownloadForwarderApply(d, p) ==
    [d EXCEPT !.progress = p.progress,
              !.speed = p.speed,
              !.eta = p.eta,
              !.status = p.status,
              !.output_path = IF p.filename # None THEN p.filename ELSE @]

\* Transcription progress forwarder: "Don't overwrite if already completed".
TranscribeForwarderSkips(d) == d.status = "completed"

\* Transcription progress forwarder (commands.rs:243-245, 715-717).
TranscribeForwarderApply(d, p) ==
    [d EXCEPT !.status = TranscribingStatus(p.stage),
              !.transcription_progress = Some(p.progress),
              !.transcription_message = Some(p.message)]

\* start_download: download finished, subtitles requested (commands.rs:217-218).
DownloadOkSubs(d, path) ==
    [d EXCEPT !.status = "transcribing", !.output_path = Some(path)]

\* start_download: download finished, no subtitles (commands.rs:296-298).
DownloadOkNoSubs(d, path) ==
    [d EXCEPT !.status = "completed", !.progress = 100,
              !.output_path = Some(path)]

\* start_download: YtDlp::start_download failed (commands.rs:306-310).
DownloadErrArm(d, e) ==
    IF d.status # "cancelled"
    THEN [d EXCEPT !.status = "error", !.error = Some(e)]
    ELSE d

\* start_download: process_video succeeded (commands.rs:271-272).
DownloadTranscribeOkArm(d) ==
    [d EXCEPT !.status = "completed", !.progress = 100]

\* A result handler that reports a transcription failure of a download as a
\* failure of the task.
TranscribeFailureAsTaskError(d, e) ==
    [d EXCEPT !.status = "error", !.error = Some(SubtitleFailed(e))]

\* start_download: process_video failed (commands.rs:286-288).
DownloadTranscribeErrArm(d, e) ==
    [d EXCEPT !.status = "completed", !.progress = 100,
              !.error = Some(SubtitleFailed(e))]

\* A result handler that marks the task completed and leaves its progress.
LocalOkStatusOnly(d) ==
    [d EXCEPT !.status = "completed"]

\* start_local_transcription: process_video succeeded (commands.rs:749-750).
LocalTranscribeOkArm(d) ==
    [d EXCEPT !.status = "completed", !.progress = 100]

\* A result handler that treats a local failure as start_download treats a
\* transcription failure.
LocalFailureAsCompleted(d, e) ==
    IF d.status # "cancelled"
    THEN [d EXCEPT !.status = "completed", !.progress = 100,
                   !.error = Some(SubtitleFailed(e))]
    ELSE d

\* start_local_transcription: process_video failed (commands.rs:759-762).
LocalTranscribeErrArm(d, e) ==
    IF d.status # "cancelled"
    THEN [d EXCEPT !.status = "error", !.error = Some(e)]
    ELSE d

\* A cancel_download that also records the cancellation as the task's error.
CancelMarkWithError(d) ==
    [d EXCEPT !.status = "cancelled", !.error = Some(CancelledMsg)]

\* cancel_download: "Update the download status" (commands.rs:337).
CancelMarkApply(d) == [d EXCEPT !.status = "cancelled"]

\* A pipeline task that returns without touching cancel_senders.
KeepSenders(senders, id) == senders

\* The pipeline task's last statement: cancel_senders.remove(id).
CleanupSenders(senders, id) == Remove(senders, id)

\* downloads.retain(|_, d| status is not terminal)
RetainActive(m) ==
    [x \in {k \in DOMAIN m : m[k].status \notin Terminal} |-> m[x]]

----------------------------------------------------------------------------
\* Helpers on the per-run record.
FreeRun == CHOOSE r \in DOMAIN run : run[r].pc = "idle"
HasFreeRun == \E r \in DOMAIN run : run[r].pc = "idle"

\* mpsc::Sender::send: the events es join the queue behind those already
\* in it; seq is the position of each event in the order of sending, n being
\* the number of events sent before.
Send(q, n, es) ==
    q \o [i \in 1..Len(es) |->
            [stage |-> es[i].stage, progress |-> es[i].progress,
             message |-> es[i].message, seq |-> n + i]]

\* A receiver that hands out the newest event of the queue.
RecvNewest(q) == <<q[Len(q)], SubSeq(q, 1, Len(q) - 1)>>

\* mpsc::Receiver::recv: the event received and the queue it leaves.
Recv(q) == <<Head(q), Tail(q)>>

\* A step of process_video: where it leaves the pipeline, the result it
\* returns, the events it sends on transcribe_tx, the files that exist after
\* it, the subprocesses spawned so far and the one left running.
PvStep(r, pc, res, sent, files, spawned, child) ==
    run' = [run EXCEPT ![r].pc = pc, ![r].result = res,
                       ![r].tq = Send(@, run[r].nsent, sent),
                       ![r].nsent = @ + Len(sent),
                       ![r].files = files, ![r].spawned = spawned,
                       ![r].child = child]

Goto(r, pc, sent, files, spawned, child) ==
    PvStep(r, pc, NoResult, sent, files, spawned, child)

Return(r, res, sent, files, spawned, child) ==
    PvStep(r, "pv_result", res, sent, files, spawned, child)

\* Child::kill on the subprocess being waited for.
Kill(child) == None

\* Child::wait has returned: the subprocess has exited.
Exited(child) == None

\* app.emit("download-progress", download.clone()) and
\* app.emit("transcribe-progress", &progress): the event and its payload.
DownloadProgressEvent(download) == <<"download-progress", download>>
TranscribeProgressEvent(progress) == <<"transcribe-progress", progress>>

\* The snapshot taken before the changes of the critical section.
EmitStale(id) ==
    IF id \in DOMAIN downloads
    THEN <<DownloadProgressEvent(downloads[id])>>
    ELSE <<>>

\* An emit placed after the if let: a snapshot goes out for an id the table
\* no longer holds.
EmitUnguarded(id) ==
    <<DownloadProgressEvent(IF id \in DOMAIN downloads' THEN downloads'[id]
                            ELSE NewDownload(id, "download", None, FALSE))>>

\* if let Some(download) = downloads.get_mut(id) { ...; emit(download.clone()) }:
\* the snapshot is taken after the changes of the critical section.
Emit(id) ==
    IF id \in DOMAIN downloads
    THEN <<DownloadProgressEvent(downloads'[id])>>
    ELSE <<>>

\* History: the ids whose status the step leaves as "completed".
NoteCompleted ==
    was_completed' = was_completed \cup
        {id \in DOMAIN downloads' : downloads'[id].status = "completed"}

----------------------------------------------------------------------------
\* start_download (commands.rs:79-321)

\* Lines 89-129: fresh id, the Download is inserted as pending.
StartDownloadInsert(id, subs) ==
    /\ HasFreeRun
    /\ id \in Ids \ used
    /\ used' = used \cup {id}
    /\ downloads' = Insert(downloads, id, NewDownload(id, "download", None, subs))
    /\ run' = [run EXCEPT ![FreeRun] =
                 [IdleRun EXCEPT !.id = id, !.kind = "download",
                                 !.pc = "sd_register", !.subs = subs]]
    /\ ev' = <<>>
    /\ UNCHANGED <<eng, cancel_senders, flag, cancel, ncancel, cancel_req, cancel_ret, was_completed>>

\* Lines 166-196: channels created, sender stored, forwarder and pipeline spawned.
StartDownloadRegister(r) ==
    /\ run[r].pc = "sd_register"
    /\ cancel_senders' = Insert(cancel_senders, run[r].id, r)
    /\ run' = [run EXCEPT ![r].pc = "dl_begin"]
    /\ ev' = <<>>
    /\ UNCHANGED <<eng, downloads, flag, used, cancel, ncancel, cancel_req, cancel_ret, was_completed>>

\* Lines 176-191: the download progress forwarder handles one message.
DownloadForwarder(r) ==
    /\ run[r].kind = "download"
    /\ run[r].pq # <<>>
    /\ LET p == Head(run[r].pq) IN
         /\ downloads' = IF p.download_id \in DOMAIN downloads
                         THEN [downloads EXCEPT ![p.download_id] =
                                  DownloadForwarderApply(@, p)]
                         ELSE downloads
         /\ ev' = Emit(p.download_id)
    /\ run' = [run EXCEPT ![r].pq = Tail(@)]
    /\ UNCHANGED <<eng, cancel_senders, flag, used, cancel, ncancel, cancel_req, cancel_ret>>
    /\ NoteCompleted

\* Lines 197-203: the pipeline marks the task as downloading.
PipelineDownloading(r) ==
    /\ run[r].pc = "dl_begin"
    /\ downloads' = IF run[r].id \in DOMAIN downloads
                    THEN [downloads EXCEPT ![run[r].id].status = "downloading"]
                    ELSE downloads
    /\ ev' = Emit(run[r].id)
    /\ run' = [run EXCEPT ![r].pc = "yt_loop"]
    /\ UNCHANGED <<eng, cancel_senders, flag, used, cancel, ncancel, cancel_req, cancel_ret, was_completed>>

\* YtDlp::start_download (ytdlp.rs:165-309)

\* ytdlp.rs:200-202: the subprocess cannot be spawned.
YtSpawnFail(r) ==
    /\ run[r].pc = "yt_loop"
    /\ run[r].lines = 0
    /\ run' = [run EXCEPT ![r].pc = "dl_result",
                          ![r].result = Err("Failed to start download")]
    /\ ev' = <<>>
    /\ UNCHANGED <<eng, downloads, cancel_senders, flag, used, cancel, ncancel,
                   cancel_req, cancel_ret, was_completed>>

\* ytdlp.rs:224-230: the select! arm on cancel_rx.changed().
YtCancelled(r) ==
    /\ run[r].pc = "yt_loop"
    /\ flag[r]
    /\ run' = [run EXCEPT ![r].pc = "dl_result", ![r].lines = 0,
                          ![r].file = None,
                          ![r].result = Err(DownloadCancelledMsg)]
    /\ ev' = <<>>
    /\ UNCHANGED <<eng, downloads, cancel_senders, flag, used, cancel, ncancel,
                   cancel_req, cancel_ret, was_completed>>

\* ytdlp.rs:232-275: one line of output is read.
YtLine(r, kind) ==
    /\ run[r].pc = "yt_loop"
    /\ run[r].lines < MaxLines
    /\ \/ /\ kind = "destination"
          /\ run' = [run EXCEPT ![r].lines = @ + 1, ![r].file = Some("file")]
       \/ /\ kind = "progress"
          /\ run' = [run EXCEPT ![r].lines = @ + 1,
                       ![r].pq = Append(@, DProgress(run[r].id, "downloading",
                                    50, Some("1MiB/s"), Some("00:10"),
                                    run[r].file))]
       \/ /\ kind = "hundred"
          /\ run' = [run EXCEPT ![r].lines = @ + 1,
                       ![r].pq = Append(@, DProgress(run[r].id, "completed",
                                    100, None, None, run[r].file))]
    /\ ev' = <<>>
    /\ UNCHANGED <<eng, downloads, cancel_senders, flag, used, cancel, ncancel,
                   cancel_req, cancel_ret, was_completed>>

\* ytdlp.rs:276-308: EOF, then the exit status decides.
YtExit(r, success) ==
    /\ run[r].pc = "yt_loop"
    /\ run' = [run EXCEPT ![r].pc = "dl_result", ![r].lines = 0,
                 ![r].file = None,
                 ![r].video = IF success THEN "original" ELSE @,
                 ![r].result =
                    IF success
                    THEN Ok(IF run[r].file # None THEN run[r].file[1]
                            ELSE "output_dir")
                    ELSE Err("Download failed with unknown error")]
    /\ ev' = <<>>
    /\ UNCHANGED <<eng, downloads, cancel_senders, flag, used, cancel, ncancel,
                   cancel_req, cancel_ret, was_completed>>

\* commands.rs:206-221, 293-314: the result of YtDlp::start_download.
DownloadResult(r) ==
    /\ run[r].pc = "dl_result"
    /\ LET id == run[r].id
           res == run[r].result
       IN
         /\ \/ /\ res[1] = "Ok" /\ run[r].subs
               /\ downloads' = IF id \in DOMAIN downloads
                               THEN [downloads EXCEPT ![id] = DownloadOkSubs(@, res[2])]
                               ELSE downloads
               /\ run' = [run EXCEPT ![r].pc = "pv_begin", ![r].result = NoResult]
            \/ /\ res[1] = "Ok" /\ ~run[r].subs
               /\ downloads' = IF id \in DOMAIN downloads
                               THEN [downloads EXCEPT ![id] = DownloadOkNoSubs(@, res[2])]
                               ELSE downloads
               /\ run' = [run EXCEPT ![r].pc = "cleanup", ![r].result = NoResult]
            \/ /\ res[1] = "Err"
               /\ downloads' = IF id \in DOMAIN downloads
                               THEN [downloads EXCEPT ![id] = DownloadErrArm(@, res[2])]
                               ELSE downloads
               /\ run' = [run EXCEPT ![r].pc = "cleanup", ![r].result = NoResult]
         /\ ev' = Emit(id)
    /\ UNCHANGED <<eng, cancel_senders, flag, used, cancel, ncancel, cancel_req, cancel_ret>>
    /\ NoteCompleted

----------------------------------------------------------------------------
\* add_local_transcription (commands.rs:600-643)
AddLocalTranscription(id) ==
    /\ id \in Ids \ used
    /\ used' = used \cup {id}
    /\ downloads' = Insert(downloads, id,
                       NewDownload(id, "local_transcribe", Some("source"), TRUE))
    /\ ev' = <<DownloadProgressEvent(downloads'[id])>>
    /\ UNCHANGED <<eng, cancel_senders, flag, run, cancel, ncancel, cancel_req, cancel_ret, was_completed>>

\* start_local_transcription (commands.rs:647-773)

\* Lines 653-673: the task is read under the lock; the call goes on only for
\* a pending local task.  A call that returns early here (unknown id, wrong
\* task type, status not pending) changes no state and is not a step.
StartLocalCheck(id) ==
    /\ HasFreeRun
    /\ id \in DOMAIN downloads
    /\ downloads[id].task_type = "local_transcribe"
    /\ downloads[id].status = "pending"
    /\ run' = [run EXCEPT ![FreeRun] =
                 [IdleRun EXCEPT !.id = id, !.kind = "local",
                                 !.pc = "sl_register", !.video = "original"]]
    /\ ev' = <<>>
    /\ UNCHANGED <<eng, downloads, cancel_senders, flag, used, cancel, ncancel,
                   cancel_req, cancel_ret, was_completed>>

\* Lines 678-679: a new watch channel; its sender replaces any stored one.
StartLocalRegister(r) ==
    /\ run[r].pc = "sl_register"
    /\ cancel_senders' = Insert(cancel_senders, run[r].id, r)
    /\ run' = [run EXCEPT ![r].pc = "sl_mark"]
    /\ ev' = <<>>
    /\ UNCHANGED <<eng, downloads, flag, used, cancel, ncancel, cancel_req, cancel_ret, was_completed>>

\* Lines 682-694: status update, then the pipeline task is spawned.
StartLocalMark(r) ==
    /\ run[r].pc = "sl_mark"
    /\ downloads' = IF run[r].id \in DOMAIN downloads
                    THEN [downloads EXCEPT ![run[r].id].status =
                             "transcribing:extracting"]
                    ELSE downloads
    /\ ev' = Emit(run[r].id)
    /\ run' = [run EXCEPT ![r].pc = "pv_begin"]
    /\ UNCHANGED <<eng, cancel_senders, flag, used, cancel, ncancel, cancel_req, cancel_ret, was_completed>>

----------------------------------------------------------------------------
\* The file system as process_video sees it (transcription_manager.rs).
\* "temp_dir" is <video dir>/.zinc_temp, "audio" is audio.wav in it,
\* "generated_srt" is the audio.srt the engine writes next to the audio,
\* "moonshine_chunks" is .zinc_moonshine_chunks next to the audio,
\* "srt" is <video stem>.srt next to the media and "output" is
\* <video stem>_subtitled.<ext>.
TempFiles == {"temp_dir", "audio", "generated_srt", "srt", "output"}

\* The files that lie inside a directory.
Inside(dir) ==
    IF dir = "temp_dir" THEN {"audio", "generated_srt", "moonshine_chunks"}
    ELSE {}

\* fs::remove_file
RemoveFile(files, f) == files \ {f}

\* fs::remove_dir: "Only succeeds if empty".
RemoveDir(files, dir) ==
    IF files \cap Inside(dir) = {} THEN files \ {dir} ELSE files

\* A cancellation arm that kills the child and removes nothing.
KeepPartialAudio(files) == files

\* extract_audio, cancellation arm, "Clean up temp files" (lines 210-211).
ExtractCancelCleanup(files) == RemoveDir(RemoveFile(files, "audio"), "temp_dir")

\* process_video, cancellation before transcription (lines 283-285).
PreTranscribeCancelCleanup(files) ==
    RemoveDir(RemoveFile(files, "audio"), "temp_dir")

\* process_video, "Clean up temp audio file regardless of result" (311-313).
AfterTranscribeCleanup(files) ==
    RemoveDir(RemoveFile(files, "audio"), "temp_dir")

\* process_video, fs::rename(&generated_srt, &srt_path) (lines 318-322).
MoveSrt(files) == (files \ {"generated_srt"}) \cup {"srt"}

\* process_video, cancellation before embedding (line 331).
PreEmbedCancelCleanup(files) == RemoveFile(files, "srt")

\* embed_subtitles, cancellation arm, "Clean up partial output" (line 556).
EmbedCancelCleanup(files) == RemoveFile(files, "output")

\* process_video, lines 354-357: fs::rename(video_path, &backup_path); the
\* original now lies at the backup path and the media path holds nothing.
BackupOriginal(files) == files \cup {"backup"}

\* process_video, lines 359-361: fs::rename(&output_path, video_path).
ReplaceWithSubtitled(files) == files \ {"output"}

\* process_video, lines 354-367: the original is renamed to the backup, the
\* subtitled file is renamed to the original, the backup and the SRT file
\* are deleted.
Finalize(files) ==
    RemoveFile(RemoveFile(ReplaceWithSubtitled(BackupOriginal(files)),
                          "backup"), "srt")

\* The end of process_video inside finalisation: the result, the events sent
\* since the muxing ended, the files left and what the media path holds.
Finalized(r, res, sent, files, video) ==
    run' = [run EXCEPT ![r].pc = "pv_result", ![r].result = res,
                       ![r].tq = Send(@, run[r].nsent, sent),
                       ![r].nsent = @ + Len(sent),
                       ![r].files = files,
                       ![r].child = Exited(run[r].child),
                       ![r].video = video]

\* TranscriptionManager::process_video (transcription_manager.rs:231-378):
\* the points where it reads the cancellation flag, the subprocesses it
\* spawns, the files it creates and removes, the progress events it sends
\* and the result it returns.

\* Lines 250-257, then extract_audio 143-192: the checks, the temp directory
\* and the ffmpeg child that writes audio.wav.
PvBegin(r) ==
    /\ run[r].pc = "pv_begin"
    /\ \/ /\ flag[r]
          /\ Return(r, Err(CancelledMsg), <<>>, run[r].files, run[r].spawned,
                    run[r].child)
       \/ /\ ~flag[r]
          /\ Return(r, Err(FfmpegMissingMsg), <<>>, run[r].files,
                    run[r].spawned \cup {"ffmpeg -version"}, run[r].child)
       \/ /\ ~flag[r]
          /\ Goto(r, "pv_extract",
                  <<TProgress("extracting", 0, "Extracting audio...")>>,
                  run[r].files \cup {"temp_dir", "audio"},
                  run[r].spawned \cup {"ffmpeg -version", "ffmpeg extract"},
                  Some("ffmpeg extract"))
    /\ ev' = <<>>
    /\ UNCHANGED <<eng, downloads, cancel_senders, flag, used, cancel, ncancel,
                   cancel_req, cancel_ret, was_completed>>

\* extract_audio 197-225: select! on the ffmpeg child and cancel_rx.changed().
PvExtract(r) ==
    /\ run[r].pc = "pv_extract"
    /\ \/ /\ flag[r]
          /\ Return(r, Err(CancelledMsg), <<>>,
                    ExtractCancelCleanup(run[r].files), run[r].spawned,
                    Kill(run[r].child))
       \/ Return(r, Err("Audio extraction failed"), <<>>, run[r].files,
                 run[r].spawned, Exited(run[r].child))
       \/ Goto(r, "pv_transcribe",
               <<TProgress("extracting", 100, "Audio extracted")>>,
               run[r].files, run[r].spawned, Exited(run[r].child))
    /\ ev' = <<>>
    /\ UNCHANGED <<eng, downloads, cancel_senders, flag, used, cancel, ncancel,
                   cancel_req, cancel_ret, was_completed>>

\* Lines 281-322: the check before transcription, then
\* TranscriptionManager::transcribe (101-134) and the whisper_rs engine
\* (whisper_rs_engine.rs:646-845) taken as one step.  The engine never reads
\* the flag and reports its own "complete" stage; its successive events of
\* one stage are represented by the last of them.  An engine that is not
\* available is asked for its info, which runs nvidia-smi; an available one
\* runs ffprobe, then the inference, and writes audio.srt.
PvTranscribe(r) ==
    /\ run[r].pc = "pv_transcribe"
    /\ \/ /\ flag[r]
          /\ Return(r, Err(CancelledMsg), <<>>,
                    PreTranscribeCancelCleanup(run[r].files), run[r].spawned, run[r].child)
       \/ /\ ~flag[r]
          /\ Return(r, Err(EngineMissingMsg), <<>>,
                    AfterTranscribeCleanup(run[r].files),
                    run[r].spawned \cup {"nvidia-smi"}, run[r].child)
       \/ /\ ~flag[r]
          /\ Return(r, Err(EmptyTranscriptMsg),
                    <<TProgress("preparing", 5, "Loading audio..."),
                      TProgress("transcribing", 90, "Generating subtitles...")>>,
                    AfterTranscribeCleanup(run[r].files),
                    run[r].spawned \cup {"ffprobe", "inference"}, run[r].child)
       \/ /\ ~flag[r]
          /\ Return(r, Err(MoveFailedMsg),
                    <<TProgress("preparing", 5, "Loading audio..."),
                      TProgress("transcribing", 90, "Generating subtitles..."),
                      TProgress("complete", 100, "Transcription complete")>>,
                    AfterTranscribeCleanup(run[r].files \cup {"generated_srt"}),
                    run[r].spawned \cup {"ffprobe", "inference"}, run[r].child)
       \/ /\ ~flag[r]
          /\ Goto(r, "pv_embed",
                  <<TProgress("preparing", 5, "Loading audio..."),
                    TProgress("transcribing", 90, "Generating subtitles..."),
                    TProgress("complete", 100, "Transcription complete")>>,
                  MoveSrt(AfterTranscribeCleanup(
                              run[r].files \cup {"generated_srt"})),
                  run[r].spawned \cup {"ffprobe", "inference"}, None)
    /\ ev' = <<>>
    /\ UNCHANGED <<eng, downloads, cancel_senders, flag, used, cancel, ncancel,
                   cancel_req, cancel_ret, was_completed>>

\* Lines 330-337: the check before embedding.
PvEmbed(r) ==
    /\ run[r].pc = "pv_embed"
    /\ \/ /\ flag[r]
          /\ Return(r, Err(CancelledMsg), <<>>,
                    PreEmbedCancelCleanup(run[r].files), run[r].spawned, run[r].child)
       \/ /\ ~flag[r]
          /\ Goto(r, "pv_embed_start", <<>>, run[r].files, run[r].spawned, None)
    /\ ev' = <<>>
    /\ UNCHANGED <<eng, downloads, cancel_senders, flag, used, cancel, ncancel,
                   cancel_req, cancel_ret, was_completed>>

\* embed_subtitles 436-539: its own check, then the ffmpeg child that writes
\* the subtitled file.
PvEmbedStart(r) ==
    /\ run[r].pc = "pv_embed_start"
    /\ \/ /\ flag[r]
          /\ Return(r, Err(CancelledMsg), <<>>, run[r].files, run[r].spawned,
                    run[r].child)
       \/ /\ ~flag[r]
          /\ Goto(r, "pv_embed_wait",
                  <<TProgress("embedding", 0, "Embedding subtitles...")>>,
                  run[r].files \cup {"output"},
                  run[r].spawned \cup {"ffmpeg mux"}, Some("ffmpeg mux"))
    /\ ev' = <<>>
    /\ UNCHANGED <<eng, downloads, cancel_senders, flag, used, cancel, ncancel,
                   cancel_req, cancel_ret, was_completed>>

\* embed_subtitles 544-570, then finalisation, lines 345-377.
PvEmbedWait(r) ==
    /\ run[r].pc = "pv_embed_wait"
    /\ \/ /\ flag[r]
          /\ Return(r, Err(CancelledMsg), <<>>,
                    EmbedCancelCleanup(run[r].files), run[r].spawned,
                    Kill(run[r].child))
       \/ Return(r, Err("ffmpeg muxing failed"), <<>>, run[r].files,
                 run[r].spawned, Exited(run[r].child))
       \/ Finalized(r, Err(BackupFailedMsg),
                    <<TProgress("embedding", 100, "Subtitles embedded"),
                      TProgress("finalizing", 0, "Finalizing...")>>,
                    run[r].files, run[r].video)
       \/ Finalized(r, Err(ReplaceFailedMsg),
                    <<TProgress("embedding", 100, "Subtitles embedded"),
                      TProgress("finalizing", 0, "Finalizing...")>>,
                    BackupOriginal(run[r].files), "none")
       \/ Finalized(r, Ok("video"),
                    <<TProgress("embedding", 100, "Subtitles embedded"),
                      TProgress("finalizing", 0, "Finalizing..."),
                      TProgress("complete", 100, "Subtitles added")>>,
                    Finalize(run[r].files), "subtitled")
    /\ ev' = <<>>
    /\ UNCHANGED <<eng, downloads, cancel_senders, flag, used, cancel, ncancel,
                   cancel_req, cancel_ret, was_completed>>

\* commands.rs:231-250 and 703-722: the transcription progress forwarder
\* handles one message.
TranscribeForwarder(r) ==
    /\ run[r].tq # <<>>
    /\ LET p == Recv(run[r].tq)[1]
           id == run[r].id
       IN
         IF p.stage # "complete" /\ id \in DOMAIN downloads
            /\ ~TranscribeForwarderSkips(downloads[id])
         THEN /\ downloads' = [downloads EXCEPT ![id] =
                                  TranscribeForwarderApply(@, p)]
              /\ ev' = <<TranscribeProgressEvent(p),
                          DownloadProgressEvent(downloads'[id])>>
         ELSE /\ downloads' = downloads
              /\ ev' = <<>>
    /\ run' = [run EXCEPT ![r].tq = Recv(@)[2], ![r].nrecv = @ + 1]
    /\ UNCHANGED <<eng, cancel_senders, flag, used, cancel, ncancel, cancel_req, cancel_ret, was_completed>>

\* The arm of the pipeline task's match on process_video's result.
TranscribeArm(kind, d, res) ==
    CASE kind = "download" /\ res[1] = "Ok"  -> DownloadTranscribeOkArm(d)
      [] kind = "download" /\ res[1] = "Err" -> DownloadTranscribeErrArm(d, res[2])
      [] kind = "local" /\ res[1] = "Ok"     -> LocalTranscribeOkArm(d)
      [] kind = "local" /\ res[1] = "Err"    -> LocalTranscribeErrArm(d, res[2])

\* commands.rs:258-292 and 733-766: the result of process_video.
TranscribeResult(r) ==
    /\ run[r].pc = "pv_result"
    /\ downloads' = IF run[r].id \in DOMAIN downloads
                    THEN [downloads EXCEPT ![run[r].id] =
                             TranscribeArm(run[r].kind, @, run[r].result)]
                    ELSE downloads
    /\ ev' = Emit(run[r].id)
    /\ run' = [run EXCEPT ![r].pc = "cleanup", ![r].result = NoResult]
    /\ UNCHANGED <<eng, cancel_senders, flag, used, cancel, ncancel, cancel_req, cancel_ret>>
    /\ NoteCompleted

\* commands.rs:317 and 769: "Clean up cancel sender", the task's last step.
Cleanup(r) ==
    /\ run[r].pc = "cleanup"
    /\ cancel_senders' = CleanupSenders(cancel_senders, run[r].id)
    /\ run' = [run EXCEPT ![r].pc = "done"]
    /\ ev' = <<>>
    /\ UNCHANGED <<eng, downloads, flag, used, cancel, ncancel, cancel_req, cancel_ret, was_completed>>

----------------------------------------------------------------------------
\* cancel_download (commands.rs:324-345): three critical sections.  One
\* invocation is in flight at a time.

\* Lines 330-332: the signal is sent if a sender is stored for the id.
CancelSend(id) ==
    /\ cancel.pc = "idle"
    /\ ncancel < MaxCancels
    /\ id \in used
    /\ flag' = IF id \in DOMAIN cancel_senders
               THEN [flag EXCEPT ![cancel_senders[id]] = TRUE]
               ELSE flag
    /\ cancel' = [pc |-> "mark", id |-> id,
                  live |-> /\ id \in DOMAIN cancel_senders
                           /\ id \in DOMAIN downloads
                           /\ downloads[id].status \notin Terminal]
    /\ ncancel' = ncancel + 1
    /\ cancel_req' = cancel_req \cup {id}
    /\ ev' = <<>>
    /\ UNCHANGED <<eng, downloads, cancel_senders, used, run, cancel_ret, was_completed>>

\* Lines 335-339: the status is overwritten.
CancelMark ==
    /\ cancel.pc = "mark"
    /\ downloads' = IF cancel.id \in DOMAIN downloads
                    THEN [downloads EXCEPT ![cancel.id] = CancelMarkApply(@)]
                    ELSE downloads
    /\ ev' = Emit(cancel.id)
    /\ cancel' = [cancel EXCEPT !.pc = "remove"]
    /\ UNCHANGED <<eng, cancel_senders, flag, used, run, ncancel, cancel_req, cancel_ret, was_completed>>

\* Lines 342-344: the sender is removed and the command returns.
CancelRemove ==
    /\ cancel.pc = "remove"
    /\ cancel_senders' = Remove(cancel_senders, cancel.id)
    /\ cancel_ret' = IF cancel.live THEN cancel_ret \cup {cancel.id} ELSE cancel_ret
    /\ cancel' = NoCancel
    /\ ev' = <<>>
    /\ UNCHANGED <<eng, downloads, flag, used, run, ncancel, cancel_req, was_completed>>

\* clear_download (commands.rs:356-362)
ClearDownload(id) ==
    /\ id \in DOMAIN downloads
    /\ downloads' = Remove(downloads, id)
    /\ ev' = <<>>
    /\ UNCHANGED <<eng, cancel_senders, flag, used, run, cancel, ncancel, cancel_req, cancel_ret, was_completed>>

\* clear_completed_downloads (commands.rs:365-371)
ClearCompletedDownloads ==
    /\ downloads' = RetainActive(downloads)
    /\ downloads' # downloads
    /\ ev' = <<>>
    /\ UNCHANGED <<eng, cancel_senders, flag, used, run, cancel, ncancel, cancel_req, cancel_ret, was_completed>>

----------------------------------------------------------------------------
\* The transcription engines (transcription/whisper_rs_engine.rs,
\* transcription/moonshine.rs, transcription/engine.rs) and
\* TranscriptionManager::transcribe.  Durations are in whole seconds,
\* whisper timestamps in centiseconds, segment times in milliseconds.  The
\* text of the SRT file is not represented, only whether it was written.

\* whisper_rs_engine.rs:14 and 16, moonshine.rs:230
CHUNK_DURATION_SECS == 300
CHUNK_OVERLAP_SECS == 2
CHUNK_DURATION == 30

ModelNotInstalledMsg == "Model 'base' is not installed. Please download it first."
MsModelNotInstalledMsg == "Model 'base' is not installed"
SegmentFailedMsg == "ffmpeg segment extraction failed: error"
InferenceFailedMsg == "Transcription failed: error"
MsChunkFailedMsg == "ffmpeg chunk extraction failed: error"
SherpaFailedMsg == "sherpa-onnx transcription failed: unknown error"
MsEmptyTranscriptMsg == "Transcription produced no text. The audio may be silent, corrupted, or in an unsupported format."

Max(a, b) == IF a >= b THEN a ELSE b

\* A division that rounds towards zero.
TruncDiv(x, y) == IF x <= 0 THEN 0 ELSE x \div y

\* (x / y).ceil() as usize: the cast of a negative value gives 0.
CeilDiv(x, y) == IF x <= 0 THEN 0 ELSE (x + y - 1) \div y

\* whisper_rs_engine.rs:223
EffectiveChunkDuration == CHUNK_DURATION_SECS - CHUNK_OVERLAP_SECS

\* A chunk count that leaves the overlap out: ceil(duration / 298).
NumChunksOfWhole(duration) ==
    Max(CeilDiv(duration, EffectiveChunkDuration), 1)

\* whisper_rs_engine.rs:224-225
NumChunks(duration) ==
    Max(CeilDiv(duration - CHUNK_OVERLAP_SECS, EffectiveChunkDuration), 1)

\* whisper_rs_engine.rs:245
ChunkStart(chunk_idx) == chunk_idx * EffectiveChunkDuration

\* whisper_rs_engine.rs:246-251
ChunkDuration(chunk_idx, num_chunks, duration) ==
    IF chunk_idx = num_chunks - 1
    THEN duration - ChunkStart(chunk_idx)
    ELSE CHUNK_DURATION_SECS

\* whisper_rs_engine.rs:254, chunk_duration < 0.5
TooShort(chunk_duration) == 2 * chunk_duration < 1

\* The chunks the loop of transcribe_chunked visits, in order (244-256).
ChunkPlan(duration) ==
    LET n == NumChunks(duration)
        all == [i \in 1..n |->
                  [start |-> ChunkStart(i - 1),
                   length |-> ChunkDuration(i - 1, n, duration)]]
        Visited(c) == ~TooShort(c.length)
    IN SelectSeq(all, Visited)

\* moonshine.rs:366
MoonshineNumChunks(total_duration, chunk_duration) ==
    CeilDiv(total_duration, chunk_duration)

\* str::trim on the texts an inference returns.
Trim(text) ==
    CASE text \in {" ", "  "} -> ""
      [] text = " world "    -> "world"
      [] OTHER               -> text

\* moonshine.rs:386 and 406-409: the window of audio ffmpeg is asked to cut
\* for chunk i (-ss start_time, -t chunk_duration).
MsChunkWindow(i, chunk_duration) ==
    [start |-> i * chunk_duration, duration |-> chunk_duration]

\* The transcripts put one after the other.
Concat(transcripts, sep) ==
    IF transcripts = <<>> THEN ""
    ELSE LET F[k \in 1..Len(transcripts)] ==
                 IF k = 1 THEN transcripts[1] ELSE F[k - 1] \o transcripts[k]
         IN F[Len(transcripts)]

\* moonshine.rs:466: all_transcripts.join(" ")
Join(transcripts, sep) ==
    IF transcripts = <<>> THEN ""
    ELSE LET F[k \in 1..Len(transcripts)] ==
                 IF k = 1 THEN transcripts[1]
                 ELSE F[k - 1] \o sep \o transcripts[k]
         IN F[Len(transcripts)]

\* A segment as whisper reports it: times in centiseconds from the start of
\* the audio it was given.
RelSeg(start, end, text) == [start |-> start, end |-> end, text |-> text]

\* What one inference can report for a chunk of 300 s: nothing, blank text,
\* and segments before, across and inside the two seconds shared with the
\* previous and with the next chunk.  whisper gives no guarantee on the
\* order of its segments, and it reports segments of no length: one output
\* has its segments out of order, one has an empty segment at 298 s.
InferenceOutputs ==
    { <<>>,
      <<RelSeg(600, 700, " ")>>,
      <<RelSeg(29600, 29750, "d"), RelSeg(250, 500, "c")>>,
      <<RelSeg(250, 500, "c"), RelSeg(29600, 29750, "d"),
        RelSeg(29800, 29800, "z")>>,
      <<RelSeg(0, 150, "b"), RelSeg(29700, 29900, "e")>>,
      <<RelSeg(100, 300, "a"), RelSeg(29850, 29950, "f")>> }

\* The part of an output that lies within audio of the given length.
Fits(out, duration) ==
    LET Within(s) == s.end <= duration * 100 IN SelectSeq(out, Within)

\* whisper_rs_engine.rs:354-371 and 786-803: centiseconds to milliseconds
\* plus the chunk offset, blank segments left out.  chunk is the index of
\* the chunk the segment comes from.
ChunkSegments(out, chunk_offset_ms, chunk_idx) ==
    LET NonBlank(s) == Trim(s.text) # ""
        kept == SelectSeq(out, NonBlank)
    IN [i \in 1..Len(kept) |->
          [start |-> kept[i].start * 10 + chunk_offset_ms,
           end |-> kept[i].end * 10 + chunk_offset_ms,
           text |-> kept[i].text, chunk |-> chunk_idx]]

\* A merge without deduplication.
MergeKeepAll(all_segments, chunk_segments, overlap_start_ms) ==
    all_segments \o chunk_segments

\* whisper_rs_engine.rs:381-403: "Merge segments, handling overlap
\* deduplication".
MergeSegments(all_segments, chunk_segments, overlap_start_ms) ==
    IF all_segments # <<>> /\ chunk_segments # <<>>
    THEN LET Retained(s) == s.end <= overlap_start_ms \/ s.start < overlap_start_ms
             Added(s) == s.start >= overlap_start_ms
         IN SelectSeq(all_segments, Retained) \o SelectSeq(chunk_segments, Added)
    ELSE all_segments \o chunk_segments

\* The list left in the order of the merge.
Unsorted(all_segments) == all_segments

\* whisper_rs_engine.rs:425: all_segments.sort_by_key(|(start, _, _)| *start),
\* a stable sort.
RECURSIVE SortByStart(_)
SortByStart(all_segments) ==
    IF all_segments = <<>> THEN <<>>
    ELSE LET last == all_segments[Len(all_segments)]
             sorted == SortByStart(SubSeq(all_segments, 1, Len(all_segments) - 1))
             NotAfter(s) == s.start <= last.start
             After(s) == s.start > last.start
         IN SelectSeq(sorted, NotAfter) \o <<last>> \o SelectSeq(sorted, After)

\* An emptiness check that always finds text.
AlwaysHasText(all_segments) == TRUE

\* whisper_rs_engine.rs:418 and 819: !segments.is_empty()
HasText(all_segments) == all_segments # <<>>

\* moonshine.rs:268-269: the joined transcript, trimmed, is not empty.
TranscriptHasText(transcripts) ==
    \E i \in 1..Len(transcripts) : Trim(transcripts[i]) # ""

\* What sherpa-onnx can report for one file.
SherpaTexts == {" ", "hello", " world "}

\* chunk_{idx}.wav
ChunkFile(idx) ==
    CASE idx = 0 -> "chunk_0.wav"
      [] idx = 1 -> "chunk_1.wav"
      [] idx = 2 -> "chunk_2.wav"
      [] OTHER   -> "chunk_n.wav"

ChunkFiles == {"chunk_0.wav", "chunk_1.wav", "chunk_2.wav", "chunk_n.wav"}

\* fs::remove_dir_all on a directory of chunk files.
RemoveDirAll(files, dir) == files \ ({dir} \cup ChunkFiles)

\* The elements of a sequence.
Range(seq) == {seq[i] : i \in 1..Len(seq)}

\* One engine call: the engine, whether it is available, whether the
\* selected model is installed, the duration ffprobe reports, and its locals.
\* spawned lists the subprocesses and inferences started since transcribe was
\* called; srt_segments is the list handed to generate_srt_from_segments;
\* transcript is the text the Moonshine engine has put together; windows and
\* outcomes are history: the window cut for each chunk and what the
\* inference on it returned;
\* yielded and reached_check are history: an inference has returned
\* text that is not blank, and the engine has come to its emptiness check.
EngineCall(engine, available, installed, duration) ==
    [engine |-> engine, available |-> available, installed |-> installed,
     duration |-> duration, num_chunks |-> 0, idx |-> 0,
     all_segments |-> <<>>, chunk_segments |-> <<>>, transcripts |-> <<>>,
     srt_segments |-> <<>>, transcript |-> None,
     windows |-> <<>>, outcomes |-> <<>>,
     spawned |-> <<>>, result |-> NoResult,
     yielded |-> FALSE, reached_check |-> FALSE]

\* The calls followed: a short and a long file for each engine.  whisper_rs
\* is available when any of its models is installed, so it is when the
\* selected one is; moonshine needs the sherpa-onnx binary as well.
EngineCalls ==
    {c \in {EngineCall("whisper_rs", a, i, d) :
               a \in BOOLEAN, i \in BOOLEAN, d \in {20, 700}} :
        c.installed => c.available}
    \cup {EngineCall("moonshine", a, i, d) :
        a \in BOOLEAN, i \in BOOLEAN, d \in {20, 70}}

\* A step inside the engine: position, events sent, files.
EngStep(r, pc, sent, files) ==
    PvStep(r, pc, NoResult, sent, files, run[r].spawned, None)

\* The engine returns to process_video.
EngReturn(r, res, sent, files) ==
    PvStep(r, "pv_after_transcribe", res, sent, files, run[r].spawned, None)

EngFrame ==
    /\ ev' = <<>>
    /\ UNCHANGED <<downloads, cancel_senders, flag, used, cancel, ncancel,
                   cancel_req, cancel_ret, was_completed>>

\* process_video, lines 281-287: the check before transcription.
PvTranscribeCheck(r) ==
    /\ run[r].pc = "pv_transcribe"
    /\ \/ /\ flag[r]
          /\ Return(r, Err(CancelledMsg), <<>>,
                    PreTranscribeCancelCleanup(run[r].files), run[r].spawned,
                    run[r].child)
       \/ /\ ~flag[r]
          /\ Goto(r, "tm_transcribe", <<>>, run[r].files, run[r].spawned,
                  run[r].child)
    /\ eng' = eng
    /\ EngFrame

\* TranscriptionManager::transcribe (transcription_manager.rs:101-134).  An
\* engine that is not available is asked for its info, and the info of
\* whisper_rs runs nvidia-smi (whisper_rs_engine.rs:95-103).
TmTranscribe(r) ==
    /\ run[r].pc = "tm_transcribe"
    /\ IF ~eng.available
       THEN LET sp == IF eng.engine = "whisper_rs"
                      THEN Append(eng.spawned, "nvidia-smi")
                      ELSE eng.spawned
            IN /\ EngReturn(r, Err(EngineMissingMsg), <<>>, run[r].files)
               /\ eng' = [eng EXCEPT !.spawned = sp,
                                     !.result = Err(EngineMissingMsg)]
       ELSE /\ EngStep(r, IF eng.engine = "whisper_rs" THEN "wr_transcribe"
                          ELSE "ms_transcribe", <<>>, run[r].files)
            /\ eng' = eng
    /\ EngFrame

\* WhisperRsEngine::transcribe (whisper_rs_engine.rs:646-692) and the head
\* of transcribe_chunked (204-241): ffprobe, then the model check.
WrTranscribe(r) ==
    /\ run[r].pc = "wr_transcribe"
    /\ LET sp == Append(eng.spawned, "ffprobe")
           chunked == eng.duration > CHUNK_DURATION_SECS
           first == IF chunked
                    THEN <<TProgress("preparing", 0,
                                     "Preparing chunked transcription...")>>
                    ELSE <<TProgress("preparing", 0, "Loading Whisper model...")>>
       IN
         IF ~eng.installed
         THEN /\ EngReturn(r, Err(ModelNotInstalledMsg), first, run[r].files)
              /\ eng' = [eng EXCEPT !.spawned = sp,
                                    !.result = Err(ModelNotInstalledMsg)]
         ELSE IF chunked
         THEN /\ EngStep(r, "wr_chunk_extract", first,
                         run[r].files \cup {"whisper_chunks"})
              /\ eng' = [eng EXCEPT !.spawned = sp,
                                    !.num_chunks = NumChunks(eng.duration),
                                    !.idx = 0]
         ELSE /\ EngStep(r, "wr_single",
                         first \o <<TProgress("preparing", 5, "Loading audio...")>>,
                         run[r].files)
              /\ eng' = [eng EXCEPT !.spawned = sp]
    /\ EngFrame

\* WhisperRsEngine::transcribe, whisper_rs_engine.rs:694-845: the inference
\* on the whole file, the emptiness check, the SRT file.
WrSingle(r) ==
    /\ run[r].pc = "wr_single"
    /\ LET sp == Append(eng.spawned, "inference")
           init == <<TProgress("transcribing", 10, "Initializing Whisper...")>>
           gen == <<TProgress("transcribing", 90, "Generating subtitles...")>>
           done == <<TProgress("complete", 100, "Transcription complete")>>
       IN
         \/ /\ EngReturn(r, Err(InferenceFailedMsg), init, run[r].files)
            /\ eng' = [eng EXCEPT !.spawned = sp,
                                  !.result = Err(InferenceFailedMsg)]
         \/ \E out \in InferenceOutputs :
              LET segments == ChunkSegments(Fits(out, eng.duration), 0, 0) IN
                IF HasText(segments)
                THEN /\ EngReturn(r, Ok("generated_srt"), init \o gen \o done,
                                  run[r].files \cup {"generated_srt"})
                     /\ eng' = [eng EXCEPT !.spawned = sp,
                                   !.all_segments = segments,
                                   !.srt_segments = segments,
                                   !.yielded = segments # <<>>,
                                   !.reached_check = TRUE,
                                   !.result = Ok("generated_srt")]
                ELSE /\ EngReturn(r, Err(EmptyTranscriptMsg), init \o gen,
                                  run[r].files)
                     /\ eng' = [eng EXCEPT !.spawned = sp,
                                   !.all_segments = segments,
                                   !.yielded = segments # <<>>,
                                   !.reached_check = TRUE,
                                   !.result = Err(EmptyTranscriptMsg)]
    /\ EngFrame

\* transcribe_chunked, whisper_rs_engine.rs:244-276: the top of one
\* iteration and the extraction of the chunk's audio.
WrChunkExtract(r) ==
    /\ run[r].pc = "wr_chunk_extract"
    /\ LET chunk_duration == ChunkDuration(eng.idx, eng.num_chunks, eng.duration)
           next == IF eng.idx + 1 < eng.num_chunks THEN "wr_chunk_extract"
                   ELSE "wr_finish"
           sent == <<TProgress("transcribing",
                               (eng.idx * 90) \div eng.num_chunks + 5,
                               "Processing chunk...")>>
           sp == Append(eng.spawned, "ffmpeg segment")
       IN
         IF TooShort(chunk_duration)
         THEN /\ EngStep(r, next, <<>>, run[r].files)
              /\ eng' = [eng EXCEPT !.idx = @ + 1]
         ELSE \/ /\ EngReturn(r, Err(SegmentFailedMsg), sent, run[r].files)
                 /\ eng' = [eng EXCEPT !.spawned = sp,
                                       !.result = Err(SegmentFailedMsg)]
              \/ /\ EngStep(r, "wr_chunk_infer", sent,
                            run[r].files \cup {ChunkFile(eng.idx)})
                 /\ eng' = [eng EXCEPT !.spawned = sp]
    /\ EngFrame

\* transcribe_chunked, whisper_rs_engine.rs:278-403: the inference on the
\* chunk, the removal of the chunk file and the merge.
WrChunkInfer(r) ==
    /\ run[r].pc = "wr_chunk_infer"
    /\ LET sp == Append(eng.spawned, "inference")
           chunk_start == ChunkStart(eng.idx)
           chunk_duration == ChunkDuration(eng.idx, eng.num_chunks, eng.duration)
           next == IF eng.idx + 1 < eng.num_chunks THEN "wr_chunk_extract"
                   ELSE "wr_finish"
       IN
         \/ /\ EngReturn(r, Err(InferenceFailedMsg), <<>>, run[r].files)
            /\ eng' = [eng EXCEPT !.spawned = sp,
                                  !.result = Err(InferenceFailedMsg)]
         \/ \E out \in InferenceOutputs :
              LET chunk_segments ==
                     ChunkSegments(Fits(out, chunk_duration),
                                   chunk_start * 1000, eng.idx)
              IN /\ EngStep(r, next, <<>>,
                            RemoveFile(run[r].files, ChunkFile(eng.idx)))
                 /\ eng' = [eng EXCEPT
                               !.spawned = sp,
                               !.chunk_segments = chunk_segments,
                               !.all_segments =
                                   MergeSegments(@, chunk_segments,
                                                 chunk_start * 1000),
                               !.yielded = @ \/ chunk_segments # <<>>,
                               !.idx = @ + 1]
    /\ EngFrame

\* transcribe_chunked, whisper_rs_engine.rs:406-443: the chunk directory is
\* removed, then the emptiness check, the sort and the SRT file.
WrFinish(r) ==
    /\ run[r].pc = "wr_finish"
    /\ LET files == RemoveDirAll(run[r].files, "whisper_chunks")
           gen == <<TProgress("transcribing", 95, "Generating subtitles...")>>
           done == <<TProgress("complete", 100, "Transcription complete")>>
       IN
         IF HasText(eng.all_segments)
         THEN /\ EngReturn(r, Ok("generated_srt"), gen \o done,
                           files \cup {"generated_srt"})
              /\ eng' = [eng EXCEPT !.reached_check = TRUE,
                                    !.srt_segments = SortByStart(eng.all_segments),
                                    !.result = Ok("generated_srt")]
         ELSE /\ EngReturn(r, Err(EmptyTranscriptMsg), gen, files)
              /\ eng' = [eng EXCEPT !.reached_check = TRUE,
                                    !.result = Err(EmptyTranscriptMsg)]
    /\ EngFrame

\* MoonshineEngine::transcribe (moonshine.rs:181-254) and the head of
\* transcribe_chunked (366-383): the model check, then ffprobe.
MsTranscribe(r) ==
    /\ run[r].pc = "ms_transcribe"
    /\ LET first == <<TProgress("preparing", 0, "Loading Moonshine model...")>>
           sp == Append(eng.spawned, "ffprobe")
       IN
         IF ~eng.installed
         THEN /\ EngReturn(r, Err(MsModelNotInstalledMsg), first, run[r].files)
              /\ eng' = [eng EXCEPT !.result = Err(MsModelNotInstalledMsg)]
         ELSE IF eng.duration > CHUNK_DURATION
         THEN /\ EngStep(r, "ms_chunk_extract", first,
                         run[r].files \cup {"moonshine_chunks"})
              /\ eng' = [eng EXCEPT
                            !.spawned = sp,
                            !.num_chunks =
                                MoonshineNumChunks(eng.duration, CHUNK_DURATION),
                            !.idx = 0]
         ELSE /\ EngStep(r, "ms_single",
                         first \o <<TProgress("transcribing", 10,
                                              "Running transcription...")>>,
                         run[r].files)
              /\ eng' = [eng EXCEPT !.spawned = sp]
    /\ EngFrame

\* MoonshineEngine::transcribe_single on the whole file (moonshine.rs:256-264,
\* 303-351).
MsSingle(r) ==
    /\ run[r].pc = "ms_single"
    /\ LET sp == Append(eng.spawned, "sherpa-onnx") IN
         \/ /\ EngReturn(r, Err(SherpaFailedMsg), <<>>, run[r].files)
            /\ eng' = [eng EXCEPT !.spawned = sp,
                                  !.result = Err(SherpaFailedMsg)]
         \/ \E text \in SherpaTexts :
              /\ EngStep(r, "ms_finish", <<>>, run[r].files)
              /\ eng' = [eng EXCEPT !.spawned = sp,
                                    !.transcripts = <<text>>,
                                    !.yielded = Trim(text) # ""]
    /\ EngFrame

\* transcribe_chunked, moonshine.rs:385-432: the top of one iteration and
\* the extraction of the chunk's audio.
MsChunkExtract(r) ==
    /\ run[r].pc = "ms_chunk_extract"
    /\ LET sent == <<TProgress("transcribing",
                               10 + (70 * eng.idx) \div eng.num_chunks,
                               "Processing chunk...")>>
           sp == Append(eng.spawned, "ffmpeg segment")
       IN
         \/ /\ EngReturn(r, Err(MsChunkFailedMsg), sent,
                         RemoveDirAll(run[r].files, "moonshine_chunks"))
            /\ eng' = [eng EXCEPT !.spawned = sp,
                                  !.windows = Append(@, MsChunkWindow(eng.idx, CHUNK_DURATION)),
                                  !.result = Err(MsChunkFailedMsg)]
         \/ /\ EngStep(r, "ms_chunk_infer", sent,
                       run[r].files \cup {ChunkFile(eng.idx)})
            /\ eng' = [eng EXCEPT !.spawned = sp,
                                  !.windows = Append(@, MsChunkWindow(eng.idx, CHUNK_DURATION))]
    /\ EngFrame

\* transcribe_chunked, moonshine.rs:434-461: sherpa-onnx on the chunk, the
\* removal of the chunk file, the text kept or the failure logged.
MsChunkInfer(r) ==
    /\ run[r].pc = "ms_chunk_infer"
    /\ LET sp == Append(eng.spawned, "sherpa-onnx")
           next == IF eng.idx + 1 < eng.num_chunks THEN "ms_chunk_extract"
                   ELSE "ms_finish"
           files == RemoveFile(run[r].files, ChunkFile(eng.idx))
       IN
         /\ EngStep(r, next, <<>>, files)
         /\ \/ eng' = [eng EXCEPT !.spawned = sp, !.idx = @ + 1,
                                  !.outcomes = Append(@, Err(SherpaFailedMsg))]
            \/ \E text \in SherpaTexts :
                 eng' = [eng EXCEPT
                            !.spawned = sp, !.idx = @ + 1,
                            !.outcomes = Append(@, Ok(text)),
                            !.transcripts = IF Trim(text) # ""
                                            THEN Append(@, Trim(text)) ELSE @,
                            !.yielded = @ \/ Trim(text) # ""]
    /\ EngFrame

\* moonshine.rs:463-466 and 267-297: the chunk directory is removed, then
\* the emptiness check and the SRT file.
MsFinish(r) ==
    /\ run[r].pc = "ms_finish"
    /\ LET files == RemoveDirAll(run[r].files, "moonshine_chunks")
           gen == <<TProgress("transcribing", 80, "Generating subtitles...")>>
           done == <<TProgress("complete", 100, "Transcription complete")>>
       IN
         IF TranscriptHasText(eng.transcripts)
         THEN /\ EngReturn(r, Ok("generated_srt"), gen \o done,
                           files \cup {"generated_srt"})
              /\ eng' = [eng EXCEPT !.reached_check = TRUE,
                                    !.transcript = Some(Join(eng.transcripts, " ")),
                                    !.result = Ok("generated_srt")]
         ELSE /\ EngReturn(r, Err(MsEmptyTranscriptMsg), <<>>, files)
              /\ eng' = [eng EXCEPT !.reached_check = TRUE,
                                    !.transcript = Some(Join(eng.transcripts, " ")),
                                    !.result = Err(MsEmptyTranscriptMsg)]
    /\ EngFrame

\* process_video, lines 310-322: the cleanup after transcription, the error
\* passed on, the SRT file moved next to the media.
PvAfterTranscribe(r) ==
    /\ run[r].pc = "pv_after_transcribe"
    /\ LET files == AfterTranscribeCleanup(run[r].files)
           sp == run[r].spawned \cup Range(eng.spawned)
       IN
         \/ /\ run[r].result[1] = "Err"
            /\ Return(r, run[r].result, <<>>, files, sp, None)
         \/ /\ run[r].result[1] = "Ok"
            /\ Return(r, Err(MoveFailedMsg), <<>>, files, sp, None)
         \/ /\ run[r].result[1] = "Ok"
            /\ Goto(r, "pv_embed", <<>>, MoveSrt(files), sp, None)
    /\ eng' = eng
    /\ EngFrame

\* A step of a local transcription: the command handlers, the pipeline task
\* and its forwarder.
LocalStep ==
    \/ \E id \in Ids : AddLocalTranscription(id)
    \/ \E id \in Ids : StartLocalCheck(id)
    \/ \E r \in RaceRuns : StartLocalRegister(r)
    \/ \E r \in RaceRuns : StartLocalMark(r)
    \/ \E r \in RaceRuns : PvBegin(r)
    \/ \E r \in RaceRuns : PvExtract(r)
    \/ \E r \in RaceRuns : PvTranscribe(r)
    \/ \E r \in RaceRuns : PvEmbed(r)
    \/ \E r \in RaceRuns : PvEmbedStart(r)
    \/ \E r \in RaceRuns : PvEmbedWait(r)
    \/ \E r \in RaceRuns : TranscribeForwarder(r)
    \/ \E r \in RaceRuns : TranscribeResult(r)
    \/ \E r \in RaceRuns : Cleanup(r)

Next ==
    \/ \E id \in Ids, subs \in BOOLEAN : StartDownloadInsert(id, subs)
    \/ \E r \in Runs : StartDownloadRegister(r)
    \/ \E r \in Runs : DownloadForwarder(r)
    \/ \E r \in Runs : PipelineDownloading(r)
    \/ \E r \in Runs : YtSpawnFail(r)
    \/ \E r \in Runs : YtCancelled(r)
    \/ \E r \in Runs, kind \in {"destination", "progress", "hundred"} :
          YtLine(r, kind)
    \/ \E r \in Runs, success \in BOOLEAN : YtExit(r, success)
    \/ \E r \in Runs : DownloadResult(r)
    \/ \E id \in Ids : AddLocalTranscription(id)
    \/ \E id \in Ids : StartLocalCheck(id)
    \/ \E r \in Runs : StartLocalRegister(r)
    \/ \E r \in Runs : StartLocalMark(r)
    \/ \E r \in Runs : PvBegin(r)
    \/ \E r \in Runs : PvExtract(r)
    \/ \E r \in Runs : PvTranscribe(r)
    \/ \E r \in Runs : PvEmbed(r)
    \/ \E r \in Runs : PvEmbedStart(r)
    \/ \E r \in Runs : PvEmbedWait(r)
    \/ \E r \in Runs : TranscribeForwarder(r)
    \/ \E r \in Runs : TranscribeResult(r)
    \/ \E r \in Runs : Cleanup(r)
    \/ \E id \in Ids : CancelSend(id)
    \/ CancelMark
    \/ CancelRemove
    \/ \E id \in Ids : ClearDownload(id)
    \/ ClearCompletedDownloads

\* One task, one pipeline instance, every command.
Spec == Init /\ [][Next]_vars

\* update_transcription_settings (commands.rs:777-807). A call that returns
\* an error (unknown task, status not pending) changes no state and is not
\* a step.
Engines == {None, Some("moonshine")}
Models == {None, Some("tiny")}

UpdateSettingsApply(d, engine, model) ==
    [d EXCEPT !.transcription_engine = IF engine # None THEN engine ELSE @,
              !.whisper_model = IF model # None THEN model ELSE @]

UpdateTranscriptionSettings(task_id, engine, model) ==
    /\ task_id \in DOMAIN downloads
    /\ downloads[task_id].status = "pending"
    /\ downloads' = [downloads EXCEPT ![task_id] =
                        UpdateSettingsApply(@, engine, model)]
    /\ ev' = Emit(task_id)
    /\ UNCHANGED <<eng, cancel_senders, flag, used, run, cancel, ncancel,
                   cancel_req, cancel_ret, was_completed>>

\* Every command, the settings of pending tasks included.
NextSettings ==
    \/ \E id \in Ids, subs \in BOOLEAN : StartDownloadInsert(id, subs)
    \/ \E r \in Runs : StartDownloadRegister(r)
    \/ \E r \in Runs : DownloadForwarder(r)
    \/ \E r \in Runs : PipelineDownloading(r)
    \/ \E r \in Runs : YtSpawnFail(r)
    \/ \E r \in Runs : YtCancelled(r)
    \/ \E r \in Runs, kind \in {"destination", "progress", "hundred"} :
          YtLine(r, kind)
    \/ \E r \in Runs, success \in BOOLEAN : YtExit(r, success)
    \/ \E r \in Runs : DownloadResult(r)
    \/ \E id \in Ids : AddLocalTranscription(id)
    \/ \E id \in Ids : StartLocalCheck(id)
    \/ \E r \in Runs : StartLocalRegister(r)
    \/ \E r \in Runs : StartLocalMark(r)
    \/ \E r \in Runs : PvBegin(r)
    \/ \E r \in Runs : PvExtract(r)
    \/ \E r \in Runs : PvTranscribe(r)
    \/ \E r \in Runs : PvEmbed(r)
    \/ \E r \in Runs : PvEmbedStart(r)
    \/ \E r \in Runs : PvEmbedWait(r)
    \/ \E r \in Runs : TranscribeForwarder(r)
    \/ \E r \in Runs : TranscribeResult(r)
    \/ \E r \in Runs : Cleanup(r)
    \/ \E id \in Ids : CancelSend(id)
    \/ CancelMark
    \/ CancelRemove
    \/ \E id \in Ids : ClearDownload(id)
    \/ ClearCompletedDownloads
    \/ \E id \in Ids, engine \in Engines, model \in Models :
          UpdateTranscriptionSettings(id, engine, model)

SpecSettings == Init /\ [][NextSettings]_vars

\* Concurrent invocations of start_local_transcription on one local task
\* that is never cancelled.
InitRace ==
    /\ downloads = EmptyMap
    /\ cancel_senders = EmptyMap
    /\ flag = [r \in RaceRuns |-> FALSE]
    /\ used = {}
    /\ run = [r \in RaceRuns |-> IdleRun]
    /\ cancel = NoCancel
    /\ ncancel = 0
    /\ ev = <<>>
    /\ cancel_req = {}
    /\ cancel_ret = {}
    /\ was_completed = {}
    /\ eng = NoEngine

SpecRace == InitRace /\ [][LocalStep]_vars

\* One local transcription followed through the engine: the file and the
\* engine settings are fixed at the start, the engine runs step by step, and
\* the task may be cancelled at any point.
InitEngine ==
    /\ downloads = EmptyMap
    /\ cancel_senders = EmptyMap
    /\ flag = [r \in Runs |-> FALSE]
    /\ used = {}
    /\ run = [r \in Runs |-> IdleRun]
    /\ cancel = NoCancel
    /\ ncancel = 0
    /\ ev = <<>>
    /\ cancel_req = {}
    /\ cancel_ret = {}
    /\ was_completed = {}
    /\ eng \in EngineCalls

NextEngine ==
    \/ \E id \in Ids : AddLocalTranscription(id)
    \/ \E id \in Ids : StartLocalCheck(id)
    \/ \E r \in Runs : StartLocalRegister(r)
    \/ \E r \in Runs : StartLocalMark(r)
    \/ \E r \in Runs : PvBegin(r)
    \/ \E r \in Runs : PvExtract(r)
    \/ \E r \in Runs : PvTranscribeCheck(r)
    \/ \E r \in Runs : TmTranscribe(r)
    \/ \E r \in Runs : WrTranscribe(r)
    \/ \E r \in Runs : WrSingle(r)
    \/ \E r \in Runs : WrChunkExtract(r)
    \/ \E r \in Runs : WrChunkInfer(r)
    \/ \E r \in Runs : WrFinish(r)
    \/ \E r \in Runs : MsTranscribe(r)
    \/ \E r \in Runs : MsSingle(r)
    \/ \E r \in Runs : MsChunkExtract(r)
    \/ \E r \in Runs : MsChunkInfer(r)
    \/ \E r \in Runs : MsFinish(r)
    \/ \E r \in Runs : PvAfterTranscribe(r)
    \/ \E r \in Runs : PvEmbed(r)
    \/ \E r \in Runs : PvEmbedStart(r)
    \/ \E r \in Runs : PvEmbedWait(r)
    \/ \E r \in Runs : TranscribeForwarder(r)
    \/ \E r \in Runs : TranscribeResult(r)
    \/ \E r \in Runs : Cleanup(r)
    \/ \E id \in Ids : CancelSend(id)
    \/ CancelMark
    \/ CancelRemove

SpecEngine == InitEngine /\ [][NextEngine]_vars

\* The chunk schedule of transcribe_chunked for every duration above
\* CHUNK_DURATION_SECS up to MaxDuration.
MaxDuration == 1200

InitPlan ==
    /\ downloads = EmptyMap
    /\ cancel_senders = EmptyMap
    /\ flag = [r \in Runs |-> FALSE]
    /\ used = {}
    /\ run = [r \in Runs |-> IdleRun]
    /\ cancel = NoCancel
    /\ ncancel = 0
    /\ ev = <<>>
    /\ cancel_req = {}
    /\ cancel_ret = {}
    /\ was_completed = {}
    /\ eng \in {[engine |-> "plan", duration |-> d, num_chunks |-> 0,
                 chunks |-> <<>>] : d \in (CHUNK_DURATION_SECS + 1)..MaxDuration}

\* transcribe_chunked, whisper_rs_engine.rs:221-256: the number of chunks
\* and the start and length of each chunk the loop works on.
PlanChunks ==
    /\ eng.engine = "plan"
    /\ eng.num_chunks = 0
    /\ eng' = [eng EXCEPT !.num_chunks = NumChunks(eng.duration),
                          !.chunks = ChunkPlan(eng.duration)]
    /\ UNCHANGED <<downloads, cancel_senders, flag, used, run, cancel, ncancel,
                   ev, cancel_req, cancel_ret, was_completed>>

SpecPlan == InitPlan /\ [][PlanChunks]_vars

----------------------------------------------------------------------------
\* The SRT writers of the engines, taken on their own.

\* The state of the registry while a function of an engine is followed.
RegistryIdle ==
    /\ downloads = EmptyMap
    /\ cancel_senders = EmptyMap
    /\ flag = [r \in Runs |-> FALSE]
    /\ used = {}
    /\ run = [r \in Runs |-> IdleRun]
    /\ cancel = NoCancel
    /\ ncancel = 0
    /\ ev = <<>>
    /\ cancel_req = {}
    /\ cancel_ret = {}
    /\ was_completed = {}

RegistryUnchanged ==
    UNCHANGED <<downloads, cancel_senders, flag, used, run, cancel, ncancel,
                ev, cancel_req, cancel_ret, was_completed>>

\* ParakeetEngine::generate_srt_with_timestamps (parakeet.rs:695-745).
\* sherpa-onnx reports one timestamp per token.  The tokens followed: the
\* start of a word, the continuation of a word, a punctuation mark on its
\* own, a word that ends a sentence, and white space.
Tokens == {" the", "ing", ",", " end.", " "}

\* Tokens of one input.
MaxTokens == 13

\* token.starts_with(' ')
StartsWithSpace(token) == token \in {" the", " end.", " "}

\* token.ends_with('.') || ends_with('!') || ends_with('?') || ends_with(',')
IsSentenceEnd(token) == token \in {",", " end."}

\* token.trim().is_empty()
IsBlank(token) == token = " "

\* parakeet.rs:712: "tokens starting with space are usually word boundaries"
CountsAsWord(token, i) == StartsWithSpace(token) \/ i = 0

\* parakeet.rs:718
ShouldBreak(word_count, is_sentence_end, i, len) ==
    \/ word_count >= 8 /\ is_sentence_end
    \/ word_count >= 12
    \/ i = len - 1

\* The call: len tokens, of which i have been read; blank is
\* current_segment.trim().is_empty().  A caption is recorded by its number,
\* the word count at the break, the indexes of its first and last token (its
\* start time is timestamps[first], its end time timestamps[last + 1] or,
\* for the last token, timestamps[last] + 0.5), and its last token.
InitSrtTs ==
    /\ RegistryIdle
    /\ eng \in {[engine |-> "parakeet_srt", len |-> n, i |-> 0,
                 subtitle_num |-> 1, segment_start_idx |-> 0,
                 blank |-> TRUE, word_count |-> 0, captions |-> <<>>] :
                n \in 1..MaxTokens}

\* One iteration of the loop, lines 708-741.
SrtTsToken(token) ==
    /\ eng.engine = "parakeet_srt"
    /\ eng.i < eng.len
    /\ LET i == eng.i
           word_count == eng.word_count + (IF CountsAsWord(token, i) THEN 1 ELSE 0)
           blank == eng.blank /\ IsBlank(token)
           should_break == ShouldBreak(word_count, IsSentenceEnd(token), i, eng.len)
       IN IF should_break /\ ~blank
          THEN eng' = [eng EXCEPT
                         !.i = i + 1,
                         !.captions = Append(@, [num |-> eng.subtitle_num,
                                                 words |-> word_count,
                                                 first |-> eng.segment_start_idx,
                                                 last |-> i,
                                                 token |-> token]),
                         !.subtitle_num = @ + 1,
                         !.segment_start_idx = i + 1,
                         !.blank = TRUE,
                         !.word_count = 0]
          ELSE eng' = [eng EXCEPT !.i = i + 1, !.blank = blank,
                                  !.word_count = word_count]
    /\ RegistryUnchanged

NextSrtTs == \E token \in Tokens : SrtTsToken(token)

SpecSrtTs == InitSrtTs /\ [][NextSrtTs]_vars

----------------------------------------------------------------------------
\* format_srt_time and generate_srt_from_text (transcription/engine.rs; the
\* Parakeet engine has copies of both, parakeet.rs:770-816).  A string is a
\* sequence of one-character strings.  A time in seconds is an exact
\* fraction [num, den]: the value of the f64 without its rounding error.

DigitChars == <<"0", "1", "2", "3", "4", "5", "6", "7", "8", "9">>

\* The decimal digits of a u32.
RECURSIVE Decimal(_)
Decimal(n) ==
    IF n < 10 THEN <<DigitChars[n + 1]>>
    ELSE Append(Decimal(n \div 10), DigitChars[(n % 10) + 1])

\* format!("{:0width$}", n): at least width digits.
ZeroPad(n, width) ==
    LET ds == Decimal(n) IN
      IF Len(ds) >= width THEN ds
      ELSE [i \in 1..(width - Len(ds)) |-> "0"] \o ds

Seconds(num, den) == [num |-> num, den |-> den]

\* Milliseconds rounded to the nearest.
MillisRounded(seconds) ==
    ((seconds.num % seconds.den) * 1000 + seconds.den \div 2) \div seconds.den

\* engine.rs:63: ((seconds % 1.0) * 1000.0) as u32
Millis(seconds) == ((seconds.num % seconds.den) * 1000) \div seconds.den

\* engine.rs:59-65
FormatSrtTime(seconds) ==
    LET hours == seconds.num \div (3600 * seconds.den)
        minutes == (seconds.num % (3600 * seconds.den)) \div (60 * seconds.den)
        secs == (seconds.num % (60 * seconds.den)) \div seconds.den
        millis == Millis(seconds)
    IN ZeroPad(hours, 2) \o <<":">> \o ZeroPad(minutes, 2) \o <<":">>
       \o ZeroPad(secs, 2) \o <<",">> \o ZeroPad(millis, 3)

\* The durations formatted: whole seconds around every carry up to 100
\* hours, with fractions in steps of 0.2 ms.
SecondsTried == (0..61) \cup (3598..3601) \cup (359998..360001)
FractionsTried == {0, 1, 4, 5, 6, 2499, 2500, 4994, 4995, 4999}

InitFormat ==
    /\ RegistryIdle
    /\ eng \in {[engine |-> "format_srt_time",
                 seconds |-> Seconds(s * 5000 + f, 5000), out |-> <<>>] :
                s \in SecondsTried, f \in FractionsTried}

FormatTime ==
    /\ eng.engine = "format_srt_time"
    /\ eng.out = <<>>
    /\ eng' = [eng EXCEPT !.out = FormatSrtTime(eng.seconds)]
    /\ RegistryUnchanged

SpecFormat == InitFormat /\ [][FormatTime]_vars

\* generate_srt_from_text (engine.rs:68-103).

\* The characters of the texts followed: letters, a space, two terminators.
Chars == {"a", "b", " ", ".", "?"}

\* Characters of one text.
MaxTextLen == 5

Texts == UNION {[1..n -> Chars] : n \in 0..MaxTextLen}

\* str::trim: white space removed at both ends.
RECURSIVE TrimStart(_)
TrimStart(s) == IF s # <<>> /\ Head(s) = " " THEN TrimStart(Tail(s)) ELSE s

RECURSIVE TrimEnd(_)
TrimEnd(s) ==
    IF s # <<>> /\ s[Len(s)] = " " THEN TrimEnd(SubSeq(s, 1, Len(s) - 1)) ELSE s

TrimStr(s) == TrimEnd(TrimStart(s))

\* engine.rs:77: c == '.' || c == '!' || c == '?'
IsTerminator(c) == c \in {".", "!", "?"}

\* str::split: the pieces between terminators, empty pieces included.
RECURSIVE Split(_)
Split(s) ==
    IF \E i \in 1..Len(s) : IsTerminator(s[i])
    THEN LET i == CHOOSE k \in 1..Len(s) :
                    IsTerminator(s[k]) /\ \A j \in 1..(k - 1) : ~IsTerminator(s[j])
         IN <<SubSeq(s, 1, i - 1)>> \o Split(SubSeq(s, i + 1, Len(s)))
    ELSE <<s>>

\* engine.rs:75-80: split, trim, filter(!is_empty)
Sentences(text) ==
    LET pieces == Split(text)
        trimmed == [i \in 1..Len(pieces) |-> TrimStr(pieces[i])]
        NotEmpty(p) == p # <<>>
    IN SelectSeq(trimmed, NotEmpty)

\* engine.rs:68-103.  A caption is its number, its two formatted times and
\* its text.
GenerateSrtFromText(raw, duration_secs) ==
    LET text == TrimStr(raw)
        sentences == Sentences(text)
        n == Len(sentences)
    IN IF text = <<>> THEN <<>>
       ELSE IF n = 0
       THEN << [num |-> 1,
                start |-> <<"0", "0", ":", "0", "0", ":", "0", "0", ",",
                            "0", "0", "0">>,
                end |-> FormatSrtTime(duration_secs),
                text |-> text] >>
       ELSE [k \in 1..n |->
                [num |-> k,
                 start |-> FormatSrtTime(Seconds((k - 1) * duration_secs.num,
                                                 n * duration_secs.den)),
                 end |-> FormatSrtTime(Seconds(k * duration_secs.num,
                                               n * duration_secs.den)),
                 text |-> Append(sentences[k], ".")]]

\* The durations given: 0 s, 1 s, 2.0005 s, 10 s and 61.5 s.
DurationsTried ==
    {Seconds(0, 10000), Seconds(10000, 10000), Seconds(20005, 10000),
     Seconds(100000, 10000), Seconds(615000, 10000)}

InitSrtText ==
    /\ RegistryIdle
    /\ eng \in {[engine |-> "srt_from_text", text |-> t, duration |-> d,
                 returned |-> FALSE, captions |-> <<>>] :
                t \in Texts, d \in DurationsTried}

GenerateSrt ==
    /\ eng.engine = "srt_from_text"
    /\ ~eng.returned
    /\ eng' = [eng EXCEPT !.returned = TRUE,
                          !.captions = GenerateSrtFromText(eng.text, eng.duration)]
    /\ RegistryUnchanged

SpecSrtText == InitSrtText /\ [][GenerateSrt]_vars

----------------------------------------------------------------------------
\* The ffmpeg command line of TranscriptionManager::embed_subtitles
\* (transcription_manager.rs:455-527).

\* Extensions of the output path, "" for a path without one.
Extensions == {"webm", "WEBM", "WebM", "mkv", "MKV", "mp4", "MP4", "mov",
               "avi", ""}

\* The language setting: None, or Some code.
Languages == {"None", "auto", "en", "fr", "de", "xx"}

\* str::to_lowercase on the extensions followed.
ToLowercase(ext) ==
    CASE ext \in {"WEBM", "WebM"} -> "webm"
      [] ext = "MKV" -> "mkv"
      [] ext = "MP4" -> "mp4"
      [] OTHER -> ext

\* Lines 456-460: the extension, "mp4" when there is none, in lower case.
OutputExt(ext) == ToLowercase(IF ext = "" THEN "mp4" ELSE ext)

\* A choice of codec that ignores the container.
AlwaysMovText(ext) == <<"mov_text", FALSE>>

\* Lines 465-469: (subtitle_codec, needs_conversion)
SubtitleCodec(ext) ==
    CASE OutputExt(ext) = "webm" -> <<"webvtt", TRUE>>
      [] OutputExt(ext) = "mkv" -> <<"srt", FALSE>>
      [] OTHER -> <<"mov_text", FALSE>>

\* get_language_metadata (lines 381-425), as the two -metadata values.
LanguageMetadata(language) ==
    CASE language = "fr" -> <<"language=fra", "title=French">>
      [] language = "de" -> <<"language=deu", "title=German">>
      [] OTHER -> <<"language=eng", "title=English">>

\* Lines 474-527: the arguments given to ffmpeg.
MuxArgs(ext, language) ==
    LET subtitle_codec == SubtitleCodec(ext)[1]
        needs_conversion == SubtitleCodec(ext)[2]
        meta == LanguageMetadata(language)
    IN IF needs_conversion
       THEN <<"-i", "video_path", "-i", "srt_path",
              "-map", "0:v?", "-map", "0:a?", "-map", "1:s", "-map", "0:s?",
              "-c:v", "copy", "-c:a", "copy", "-c:s", subtitle_codec,
              "-metadata:s:s:0", meta[1], "-metadata:s:s:0", meta[2],
              "-y", "output_path">>
       ELSE <<"-i", "video_path", "-i", "srt_path",
              "-map", "0:v?", "-map", "0:a?", "-map", "1:s", "-map", "0:s?",
              "-c", "copy", "-c:s", subtitle_codec,
              "-metadata:s:s:0", meta[1], "-metadata:s:s:0", meta[2],
              "-y", "output_path">>

InitMux ==
    /\ RegistryIdle
    /\ eng \in {[engine |-> "embed_subtitles", ext |-> e, language |-> l,
                 args |-> <<>>] : e \in Extensions, l \in Languages}

BuildMuxCommand ==
    /\ eng.engine = "embed_subtitles"
    /\ eng.args = <<>>
    /\ eng' = [eng EXCEPT !.args = MuxArgs(eng.ext, eng.language)]
    /\ RegistryUnchanged

SpecMux == InitMux /\ [][BuildMuxCommand]_vars

----------------------------------------------------------------------------
\* The scopes of the MutexGuard of AppState::downloads in the pipeline tasks,
\* the forwarders and the commands that run beside them.  One task is
\* followed: a download (with or without subtitles) or a local transcription.
\* lock is the task holding the guard, pc the position of each task.

LockTasks == {"command", "pipeline", "progress_forwarder",
              "transcribe_forwarder", "cancel_download"}

\* The positions at which a task awaits YtDlp::start_download or
\* process_video, the subprocesses they wait for and the inference call.
AwaitingPcs == {"start_download", "yt_wait", "process_video",
                "pv_extract_wait", "pv_inference", "pv_mux_wait"}

\* The positions of the pipeline task, its forwarders and
\* start_local_transcription inside a block that reads or updates the task.
CriticalPcs == {"read", "marked", "transcribing_marked", "final_marked",
                "handling"}

\* Mutex::new: nobody holds the guard.
Unlocked == "unlocked"

\* The guard is never dropped.
KeepGuard(lock, task) == lock

\* The MutexGuard goes out of scope.
DropGuard(lock, task) == IF lock = task THEN Unlocked ELSE lock

\* A step of a task: where it is, where it goes, the tasks it spawns and the
\* kind of task ("any", or a download with or without subtitles) it is
\* taken in.
LockStep(task, from, to, spawns, when) ==
    [task |-> task, from |-> from, to |-> to, spawns |-> spawns, when |-> when]

\* let downloads = state.downloads.lock().await, in the order of the source:
\* start_download's pipeline task (commands.rs:198, 215 with subtitles, 294
\* without, 269 and 284, 304), start_local_transcription (654, 683) and its
\* pipeline task (747, 756), the forwarders (178, 237, 709), cancel_download
\* (335).
LockSites ==
    {LockStep("pipeline", "begin", "marked", {}, "any"),
     LockStep("pipeline", "dl_ok", "transcribing_marked", {}, "subs"),
     LockStep("pipeline", "dl_ok", "final_marked", {}, "nosubs"),
     LockStep("pipeline", "pv_result", "final_marked", {}, "any"),
     LockStep("pipeline", "dl_err", "final_marked", {}, "any"),
     LockStep("command", "begin", "read", {}, "any"),
     LockStep("command", "mark", "marked", {}, "any"),
     LockStep("progress_forwarder", "recv", "handling", {}, "any"),
     LockStep("transcribe_forwarder", "recv", "handling", {}, "any"),
     LockStep("cancel_download", "begin", "marked", {}, "any")}

\* The ends of the scopes of those guards: the blocks of the pipeline task
\* (commands.rs:203, 221, and the ends of the match arms 279, 291, 301, 313
\* and 753, 765), after which it calls YtDlp::start_download, spawns the
\* transcription forwarder and calls process_video, or cleans up; the block
\* of start_local_transcription that reads the task (673, or an early
\* return) and the one that marks it (688), after which the pipeline task
\* is spawned; the end of a forwarder's iteration (190, 249, 721); the
\* return of cancel_download (345).
GuardScopeEnds ==
    {LockStep("pipeline", "marked", "start_download", {}, "any"),
     LockStep("pipeline", "transcribing_marked", "process_video",
              {"transcribe_forwarder"}, "any"),
     LockStep("pipeline", "final_marked", "done", {}, "any"),
     LockStep("command", "read", "mark", {}, "any"),
     LockStep("command", "read", "done", {}, "any"),
     LockStep("command", "marked", "done",
              {"pipeline", "transcribe_forwarder"}, "any"),
     LockStep("progress_forwarder", "handling", "recv", {}, "any"),
     LockStep("transcribe_forwarder", "handling", "recv", {}, "any"),
     LockStep("cancel_download", "removing", "done", {}, "any")}

\* The steps that take and drop no guard: YtDlp::start_download spawns
\* yt-dlp (or fails to), waits for it and returns (ytdlp.rs:165-309);
\* process_video waits for ffmpeg to extract the audio, for the engine's
\* inference and for ffmpeg to mux, and may return an error from each
\* (transcription_manager.rs:231-378); cancel_download removes the cancel
\* sender while its guard lives (commands.rs:342).
OtherSteps ==
    {LockStep("pipeline", "start_download", "yt_wait", {}, "any"),
     LockStep("pipeline", "start_download", "dl_err", {}, "any"),
     LockStep("pipeline", "yt_wait", "dl_ok", {}, "any"),
     LockStep("pipeline", "yt_wait", "dl_err", {}, "any"),
     LockStep("pipeline", "process_video", "pv_extract_wait", {}, "any"),
     LockStep("pipeline", "process_video", "pv_result", {}, "any"),
     LockStep("pipeline", "pv_extract_wait", "pv_inference", {}, "any"),
     LockStep("pipeline", "pv_extract_wait", "pv_result", {}, "any"),
     LockStep("pipeline", "pv_inference", "pv_mux_wait", {}, "any"),
     LockStep("pipeline", "pv_inference", "pv_result", {}, "any"),
     LockStep("pipeline", "pv_mux_wait", "pv_result", {}, "any"),
     LockStep("cancel_download", "marked", "removing", {}, "any")}

\* The position a spawned task starts at.
StartPc(task) == IF task = "pipeline" THEN "process_video" ELSE "recv"

InitLocks ==
    /\ RegistryIdle
    /\ eng \in {[engine |-> "locks", kind |-> k, subs |-> s, lock |-> Unlocked,
                 pc |-> [t \in LockTasks |->
                           CASE t = "command" /\ k = "local" -> "begin"
                             [] t = "pipeline" /\ k = "download" -> "begin"
                             [] t = "progress_forwarder" /\ k = "download" -> "recv"
                             [] t = "cancel_download" -> "begin"
                             [] OTHER -> "none"]] :
               k \in {"download", "local"}, s \in BOOLEAN}

\* The task of step s is where the step starts, in a task of its kind.
LkEnabled(s) ==
    /\ eng.engine = "locks"
    /\ eng.pc[s.task] = s.from
    /\ s.when = "subs" => eng.subs
    /\ s.when = "nosubs" => ~eng.subs

\* The positions after step s.
LkPcs(s) ==
    [t \in LockTasks |-> IF t = s.task THEN s.to
                         ELSE IF t \in s.spawns THEN StartPc(t)
                         ELSE eng.pc[t]]

\* downloads.lock().await returns once nobody holds the guard.
LkLock(s) ==
    /\ LkEnabled(s)
    /\ eng.lock = Unlocked
    /\ eng' = [eng EXCEPT !.pc = LkPcs(s), !.lock = s.task]
    /\ RegistryUnchanged

\* The scope of the guard ends.
LkUnlock(s) ==
    /\ LkEnabled(s)
    /\ eng' = [eng EXCEPT !.pc = LkPcs(s), !.lock = DropGuard(eng.lock, s.task)]
    /\ RegistryUnchanged

\* A step that leaves the guard where it is.
LkOther(s) ==
    /\ LkEnabled(s)
    /\ eng' = [eng EXCEPT !.pc = LkPcs(s)]
    /\ RegistryUnchanged

NextLocks ==
    \/ \E s \in LockSites : LkLock(s)
    \/ \E s \in GuardScopeEnds : LkUnlock(s)
    \/ \E s \in OtherSteps : LkOther(s)

SpecLocks == InitLocks /\ [][NextLocks]_vars

----------------------------------------------------------------------------
\* The scheduling the runtime gives: a spawned pipeline task or forwarder
\* that can take a step does so in the end, yt-dlp, ffmpeg and the inference
\* return, and a command that was called runs to its return.

\* A step of the pipeline task of run r or of what it waits for.
PipelineStep(r) ==
    \/ StartDownloadRegister(r) \/ PipelineDownloading(r)
    \/ YtSpawnFail(r) \/ YtCancelled(r)
    \/ \E success \in BOOLEAN : YtExit(r, success)
    \/ DownloadResult(r)
    \/ StartLocalRegister(r) \/ StartLocalMark(r)
    \/ PvBegin(r) \/ PvExtract(r) \/ PvTranscribe(r) \/ PvEmbed(r)
    \/ PvEmbedStart(r) \/ PvEmbedWait(r)
    \/ TranscribeResult(r) \/ Cleanup(r)

Fairness ==
    /\ \A r \in Runs : WF_vars(PipelineStep(r))
    /\ \A r \in Runs : WF_vars(DownloadForwarder(r))
    /\ \A r \in Runs : WF_vars(TranscribeForwarder(r))
    /\ WF_vars(CancelMark \/ CancelRemove)

SpecFair == Init /\ [][Next]_vars /\ Fairness

----------------------------------------------------------------------------
\* The temporary paths of concurrent pipelines.  A path is the sequence of its
\* components; every pipeline runs in the one process of the application.

PathTasks == {"t1", "t2"}
VideoPaths == {<<"Downloads", "a.mp4">>, <<"Downloads", "b.mp4">>,
               <<"Videos", "c.mkv">>}
ChunkingEngines == {"whisper_rs", "moonshine"}

\* Path::parent and Path::join.
Parent(path) == SubSeq(path, 1, Len(path) - 1)
PathJoin(path, name) == Append(path, name)

\* transcription_manager.rs:156-162: video_dir.join(".zinc_temp").join("audio.wav")
AudioPath(video_path) ==
    PathJoin(PathJoin(Parent(video_path), ".zinc_temp"), "audio.wav")

\* std::env::temp_dir() and std::process::id() of the application's process.
EnvTempDir == <<"tmp">>
ProcessId == "4242"

\* whisper_rs_engine.rs:236
WhisperChunkDir == PathJoin(EnvTempDir, "zinc_whisper_chunks_" \o ProcessId)

\* moonshine.rs:375-378
MoonshineChunkDir(audio_path) ==
    PathJoin(Parent(audio_path), ".zinc_moonshine_chunks")

\* The chunk directory the engine of a task creates for its audio.
ChunkDir(engine, audio_path) ==
    IF engine = "whisper_rs" THEN WhisperChunkDir
    ELSE MoonshineChunkDir(audio_path)

PathTask(video_path, engine, chunked) ==
    [video_path |-> video_path, engine |-> engine, chunked |-> chunked,
     pc |-> "begin", temp |-> {}]

InitPaths ==
    /\ RegistryIdle
    /\ \E v1 \in VideoPaths, v2 \in VideoPaths,
          e1 \in ChunkingEngines, e2 \in ChunkingEngines,
          c1 \in BOOLEAN, c2 \in BOOLEAN :
          eng = [engine |-> "paths",
                 task |-> [t \in PathTasks |->
                             IF t = "t1" THEN PathTask(v1, e1, c1)
                             ELSE PathTask(v2, e2, c2)]]

\* extract_audio: ffmpeg writes the audio file of the task's video.
PathExtractAudio(t) ==
    /\ eng.engine = "paths"
    /\ eng.task[t].pc = "begin"
    /\ eng' = [eng EXCEPT !.task[t].pc = "extracted",
                          !.task[t].temp = {AudioPath(eng.task[t].video_path)}]
    /\ RegistryUnchanged

\* transcribe_chunked: the chunk directory is created and chunks are cut from
\* the audio into it.
PathCreateChunkDir(t) ==
    /\ eng.engine = "paths"
    /\ eng.task[t].pc = "extracted"
    /\ eng.task[t].chunked
    /\ eng' = [eng EXCEPT
                 !.task[t].pc = "chunking",
                 !.task[t].temp = @ \cup {ChunkDir(eng.task[t].engine,
                                    AudioPath(eng.task[t].video_path))}]
    /\ RegistryUnchanged

\* remove_dir_all(temp_dir) at the end of transcribe_chunked.
PathRemoveChunkDir(t) ==
    /\ eng.engine = "paths"
    /\ eng.task[t].pc = "chunking"
    /\ eng' = [eng EXCEPT
                 !.task[t].pc = "transcribed",
                 !.task[t].temp = @ \ {ChunkDir(eng.task[t].engine,
                                    AudioPath(eng.task[t].video_path))}]
    /\ RegistryUnchanged

\* An audio short enough is transcribed in one call, from the audio file.
PathTranscribeDirect(t) ==
    /\ eng.engine = "paths"
    /\ eng.task[t].pc = "extracted"
    /\ ~eng.task[t].chunked
    /\ eng' = [eng EXCEPT !.task[t].pc = "transcribed"]
    /\ RegistryUnchanged

\* process_video removes the audio file whatever the result.
PathRemoveAudio(t) ==
    /\ eng.engine = "paths"
    /\ eng.task[t].pc = "transcribed"
    /\ eng' = [eng EXCEPT !.task[t].pc = "done", !.task[t].temp = {}]
    /\ RegistryUnchanged

NextPaths ==
    \/ \E t \in PathTasks : PathExtractAudio(t)
    \/ \E t \in PathTasks : PathCreateChunkDir(t)
    \/ \E t \in PathTasks : PathRemoveChunkDir(t)
    \/ \E t \in PathTasks : PathTranscribeDirect(t)
    \/ \E t \in PathTasks : PathRemoveAudio(t)

SpecPaths == InitPaths /\ [][NextPaths]_vars

----------------------------------------------------------------------------
\* The three locks of AppState.  Each task is the sequence of the lock().await
\* calls and guard scope ends of its code, in program order.

AppLocks == <<"config", "downloads", "cancel_senders">>
LockNames == {AppLocks[i] : i \in 1..Len(AppLocks)}
OrderTasks == {"start_download", "download_forwarder", "download_pipeline",
               "cancel_download", "start_local_transcription",
               "local_pipeline", "local_forwarder", "update_config"}

\* lock().await whose guard is dropped at the end of the statement or block.
Alone(lock) == <<<<"lock", lock>>, <<"unlock", lock>>>>

\* A cancel_download whose first guard lived to the end of the function.
LockProgramGuardKept(task) ==
    IF task = "cancel_download"
    THEN <<<<"lock", "cancel_senders">>, <<"lock", "downloads">>,
           <<"lock", "cancel_senders">>, <<"unlock", "cancel_senders">>,
           <<"unlock", "downloads">>>>
    ELSE Alone("downloads")

\* commands.rs: the lock calls of each task.
\*   start_download 90 (config, dropped at 162), 129, 170
\*   forwarders 178-190, 237-249, 709-721
\*   download pipeline 198-203, 215-221, 269-313, 317
\*   cancel_download 330-332, 335 (held to 345), 342
\*   start_local_transcription 654-673, 679, 683-688
\*   local pipeline 747-765, 769
\*   update_config 386
LockProgram(task) ==
    CASE task = "start_download" ->
           <<<<"lock", "config">>>> \o Alone("downloads")
           \o <<<<"unlock", "config">>>> \o Alone("cancel_senders")
      [] task = "download_pipeline" ->
           Alone("downloads") \o Alone("downloads") \o Alone("downloads")
           \o Alone("cancel_senders")
      [] task = "cancel_download" ->
           Alone("cancel_senders") \o <<<<"lock", "downloads">>>>
           \o Alone("cancel_senders") \o <<<<"unlock", "downloads">>>>
      [] task = "start_local_transcription" ->
           Alone("downloads") \o Alone("cancel_senders") \o Alone("downloads")
      [] task = "local_pipeline" ->
           Alone("downloads") \o Alone("cancel_senders")
      [] task = "update_config" -> Alone("config")
      [] OTHER -> Alone("downloads")

\* The task whose return (or tokio::spawn) starts a task; commands start on
\* their own.
SpawnedBy(task) ==
    CASE task \in {"download_forwarder", "download_pipeline"} -> "start_download"
      [] task \in {"local_pipeline", "local_forwarder"} -> "start_local_transcription"
      [] OTHER -> task

\* The forwarders run their loop body once per message.
LoopTasks == {"download_forwarder", "local_forwarder"}

Returned(task) == Len(LockProgram(task)) + 1

InitOrder ==
    /\ RegistryIdle
    /\ eng = [engine |-> "lock_order",
              pc |-> [t \in OrderTasks |-> IF SpawnedBy(t) = t THEN 1 ELSE 0],
              held |-> [l \in LockNames |-> Unlocked]]

\* The next call of task t, when it has one.
AtOp(t, kind) ==
    /\ eng.engine = "lock_order"
    /\ eng.pc[t] \in 1..Len(LockProgram(t))
    /\ LockProgram(t)[eng.pc[t]][1] = kind

OpLock(t) == LockProgram(t)[eng.pc[t]][2]

\* lock().await returns once nobody holds the guard (tokio's Mutex is not
\* reentrant).
OrderAcquire(t) ==
    /\ AtOp(t, "lock")
    /\ eng.held[OpLock(t)] = Unlocked
    /\ eng' = [eng EXCEPT !.pc[t] = @ + 1, !.held[OpLock(t)] = t]
    /\ RegistryUnchanged

\* The guard goes out of scope.
OrderRelease(t) ==
    /\ AtOp(t, "unlock")
    /\ eng' = [eng EXCEPT !.pc[t] = @ + 1, !.held[OpLock(t)] = Unlocked]
    /\ RegistryUnchanged

\* tokio::spawn at the end of the command.
OrderSpawn(t) ==
    /\ eng.engine = "lock_order"
    /\ eng.pc[t] = 0
    /\ eng.pc[SpawnedBy(t)] = Returned(SpawnedBy(t))
    /\ eng' = [eng EXCEPT !.pc[t] = 1]
    /\ RegistryUnchanged

\* The forwarder receives another message.
OrderRecv(t) ==
    /\ eng.engine = "lock_order"
    /\ t \in LoopTasks
    /\ eng.pc[t] = Returned(t)
    /\ eng' = [eng EXCEPT !.pc[t] = 1]
    /\ RegistryUnchanged

NextOrder ==
    \/ \E t \in OrderTasks : OrderAcquire(t)
    \/ \E t \in OrderTasks : OrderRelease(t)
    \/ \E t \in OrderTasks : OrderSpawn(t)
    \/ \E t \in OrderTasks : OrderRecv(t)

SpecOrder == InitOrder /\ [][NextOrder]_vars

----------------------------------------------------------------------------
\* The table when the task starts next to an earlier download that has
\* finished, or on its own.
EarlierId == "t0"
EarlierDownload ==
    DownloadOkNoSubs(NewDownload(EarlierId, "download", None, FALSE), "output_dir")

InitClear ==
    /\ downloads \in {EmptyMap, Insert(EmptyMap, EarlierId, EarlierDownload)}
    /\ used = DOMAIN downloads
    /\ was_completed = DOMAIN downloads
    /\ cancel_senders = EmptyMap
    /\ flag = [r \in Runs |-> FALSE]
    /\ run = [r \in Runs |-> IdleRun]
    /\ cancel = NoCancel
    /\ ncancel = 0
    /\ ev = <<>>
    /\ cancel_req = {}
    /\ cancel_ret = {}
    /\ eng = NoEngine

SpecClear == InitClear /\ [][Next]_vars

----------------------------------------------------------------------------
\* Properties of the registry.

PvPcs == {"pv_begin", "pv_extract", "pv_transcribe", "pv_embed",
          "pv_embed_start", "pv_embed_wait", "pv_result"}

\* The pipeline task of run r has been spawned and process_video was reached.
Spawned(r) == run[r].kind = "local" /\ run[r].pc \in PvPcs \cup {"cleanup", "done"}

\* Nothing of the task's pipelines and forwarders is left to run.
Quiescent(id) ==
    /\ cancel.pc = "idle"
    /\ \A r \in DOMAIN run :
         run[r].id = id => run[r].pc = "done" /\ run[r].pq = <<>> /\ run[r].tq = <<>>

\* C1: once a cancel_download that signalled the pipeline of a task not yet
\* terminal has returned, the task is never "error" or "completed", and when
\* its pipeline and forwarders have finished its status is "cancelled".
C1_CancelEndsCancelled ==
    \A id \in cancel_ret \cap DOMAIN downloads :
        /\ downloads[id].status \notin {"error", "completed"}
        /\ Quiescent(id) => downloads[id].status = "cancelled"

\* C2: a progress event handled by the download forwarder or by the
\* transcription forwarder while the task is "cancelled" changes no field
\* of the task.
C2_CancelledIgnoresProgress ==
    [][\A r \in DOMAIN run :
          /\ DownloadForwarder(r) \/ TranscribeForwarder(r)
          /\ run[r].id \in DOMAIN downloads
          /\ downloads[run[r].id].status = "cancelled"
          => downloads' = downloads]_vars

\* C3: once a task's status has been "completed", every event the
\* transcription forwarder handles for it is dropped: the task is unchanged
\* and nothing is emitted.
C3_CompletedDropsProgress ==
    [][\A r \in DOMAIN run :
          TranscribeForwarder(r) /\ run[r].id \in was_completed
          => downloads' = downloads /\ ev' = <<>>]_vars

\* C4: a task whose status is terminal is only ever deleted, never changed.
C4_TerminalFrozen ==
    [][\A id \in DOMAIN downloads :
          downloads[id].status \in Terminal
          => id \notin DOMAIN downloads' \/ downloads'[id] = downloads[id]]_vars

\* C5 as stated: no step of cancel_download changes the task table.
C5_CancelKeepsStatus ==
    [][(\E id \in Ids : CancelSend(id)) \/ CancelMark \/ CancelRemove
          => downloads' = downloads]_vars

\* C5 amended: cancel_download raises the flag of the stored handle (and of
\* no other), then sets the status of its task to "cancelled" and changes
\* nothing else in the table, then removes the handle; every step of a call
\* made when the task is already "cancelled" and has no handle leaves the
\* table, the flags and the handles as they are.
C5_CancelEffect ==
    [][/\ \A id \in Ids : CancelSend(id) =>
             /\ downloads' = downloads
             /\ cancel_senders' = cancel_senders
             /\ \A r \in DOMAIN run :
                   flag'[r] = (flag[r] \/ (id \in DOMAIN cancel_senders
                                           /\ cancel_senders[id] = r))
       /\ CancelMark =>
             /\ DOMAIN downloads' = DOMAIN downloads
             /\ \A id \in DOMAIN downloads :
                   downloads'[id] = IF id = cancel.id
                                    THEN [downloads[id] EXCEPT !.status = "cancelled"]
                                    ELSE downloads[id]
             /\ UNCHANGED <<flag, cancel_senders>>
       /\ CancelRemove =>
             /\ UNCHANGED <<downloads, flag>>
             /\ cancel_senders' = Remove(cancel_senders, cancel.id)
       /\ \A id \in DOMAIN downloads :
             /\ CancelSend(id) \/ (cancel.id = id /\ (CancelMark \/ CancelRemove))
             /\ downloads[id].status = "cancelled"
             /\ id \notin DOMAIN cancel_senders
             => UNCHANGED <<downloads, flag, cancel_senders>>]_vars

\* A second call has overwritten nothing: the task was already cancelled.
C5_Witness ==
    /\ ncancel = 2
    /\ cancel.pc = "remove"
    /\ cancel.id \in DOMAIN downloads
    /\ cancel.id \in cancel_ret
    /\ cancel.id \notin DOMAIN cancel_senders
    /\ downloads[cancel.id].status = "cancelled"

\* C6: at most one process_video pipeline is ever spawned for a task id.
C6_OnePipelinePerTask ==
    \A id \in Ids :
        Cardinality({r \in DOMAIN run : run[r].id = id /\ Spawned(r)}) <= 1

\* C7: the error field of a task never holds the message of a Cancelled
\* outcome, bare or wrapped as a subtitle failure.
C7_CancelledNotFailure ==
    \A id \in DOMAIN downloads :
        downloads[id].error \notin {Some(CancelledMsg),
                                    Some(DownloadCancelledMsg),
                                    Some(SubtitleFailed(CancelledMsg))}

\* C8: when the pipeline task of a run has finished, on whatever path, no
\* handle is stored for its task id.
C8_PipelineExitRemovesHandle ==
    \A r \in DOMAIN run :
        run[r].pc = "done" => run[r].id \notin DOMAIN cancel_senders

\* A pipeline that ended in an error arm has finished.
C8_Witness ==
    \E r \in DOMAIN run :
        /\ run[r].pc = "done"
        /\ run[r].id \in DOMAIN downloads
        /\ downloads[run[r].id].status = "error"
        /\ cancel.pc = "idle" /\ ncancel = 0

\* C9: in a download task, when process_video has failed the result handler
\* leaves the task "completed" with progress 100 and an error message, and
\* no step taken while or after process_video runs turns the status into
\* "error".
C9_TranscriptionFailureCompletes ==
    [][\A r \in DOMAIN run :
          run[r].kind = "download" /\ run[r].id \in DOMAIN downloads
          /\ run[r].id \in DOMAIN downloads' =>
             /\ run[r].pc = "pv_result" /\ run[r].result[1] = "Err"
                /\ run'[r].pc = "cleanup"
                => /\ downloads'[run[r].id].status = "completed"
                   /\ downloads'[run[r].id].progress = 100
                   /\ downloads'[run[r].id].error # None
             /\ run[r].pc \in PvPcs \cup {"cleanup", "done"}
                /\ downloads[run[r].id].status # "error"
                => downloads'[run[r].id].status # "error"]_vars

\* The handler has recorded a transcription failure of a download task.
C9_Witness ==
    \E r \in DOMAIN run :
        /\ run[r].kind = "download" /\ run[r].pc = "cleanup"
        /\ run[r].id \in DOMAIN downloads
        /\ downloads[run[r].id].status = "completed"
        /\ downloads[run[r].id].progress = 100
        /\ downloads[run[r].id].error = Some(SubtitleFailed("ffmpeg muxing failed"))

\* C10: in a local task for which cancel_download was never called, when
\* process_video has failed the result handler leaves the task "error" with
\* exactly the returned message in its error field.
C10_LocalFailureIsError ==
    [][\A r \in DOMAIN run :
          /\ run[r].kind = "local" /\ run[r].pc = "pv_result"
          /\ run[r].result[1] = "Err" /\ run'[r].pc = "cleanup"
          /\ run[r].id \in DOMAIN downloads
          /\ run[r].id \notin cancel_req
          => /\ downloads'[run[r].id].status = "error"
             /\ downloads'[run[r].id].error = Some(run[r].result[2])]_vars

\* The handler has recorded the failure of a local task never cancelled.
C10_Witness ==
    \E r \in DOMAIN run :
        /\ run[r].kind = "local" /\ run[r].pc = "cleanup"
        /\ run[r].id \in DOMAIN downloads
        /\ run[r].id \notin cancel_req
        /\ downloads[run[r].id].status = "error"
        /\ downloads[run[r].id].error = Some("Audio extraction failed")

\* C11: a step of process_video that reads the flag as set before starting,
\* before transcription or before muxing returns Cancelled and spawns
\* nothing; a step that leaves the wait for the extraction or mux subprocess
\* with Cancelled has killed that subprocess and removed its output file.
C11_CancelChecksAndKills ==
    [][\A r \in DOMAIN run :
          /\ (PvBegin(r) \/ PvTranscribe(r) \/ PvEmbed(r)) /\ flag[r]
             => /\ run'[r].pc = "pv_result"
                /\ run'[r].result = Err(CancelledMsg)
                /\ run'[r].spawned = run[r].spawned
                /\ run'[r].child = None
          /\ PvExtract(r) /\ run'[r].result = Err(CancelledMsg)
             => /\ run[r].child = Some("ffmpeg extract") /\ flag[r]
                /\ run'[r].child = None
                /\ "audio" \notin run'[r].files
          /\ PvEmbedWait(r) /\ run'[r].result = Err(CancelledMsg)
             => /\ run[r].child = Some("ffmpeg mux") /\ flag[r]
                /\ run'[r].child = None
                /\ "output" \notin run'[r].files]_vars

\* The extraction subprocess was running when the flag was seen.
C11_Witness ==
    \E r \in DOMAIN run :
        /\ run[r].pc = "pv_result" /\ run[r].result = Err(CancelledMsg)
        /\ flag[r]
        /\ run[r].spawned = {"ffmpeg -version", "ffmpeg extract"}
        /\ run[r].child = None
        /\ "audio" \notin run[r].files

\* C18: once process_video has returned, none of the temporary files it
\* created exists: no extracted audio, no temp directory, no partial muxed
\* output, no standalone caption file.
C18_ExitRemovesTempFiles ==
    \A r \in DOMAIN run :
        run[r].pc \in {"pv_result", "cleanup", "done"}
        => run[r].files \cap TempFiles = {}

\* C19: the events waiting on a pipeline's transcription channel are those
\* sent and not yet received, in the order of sending, and every step of the
\* forwarder handles the earliest of them: what it applies and emits is the
\* event sent next after the one it handled before.
C19_ProgressFifo ==
    [][\A r \in DOMAIN run :
          /\ run[r].nrecv + Len(run[r].tq) = run[r].nsent
          /\ \A i \in 1..Len(run[r].tq) : run[r].tq[i].seq = run[r].nrecv + i
          /\ TranscribeForwarder(r) =>
                /\ run'[r].nrecv = run[r].nrecv + 1
                /\ \A i \in 1..Len(run'[r].tq) :
                      run'[r].tq[i].seq = run'[r].nrecv + i
                /\ \A p \in {run[r].tq[i] : i \in 1..Len(run[r].tq)} :
                      /\ run[r].id \in DOMAIN downloads
                      /\ downloads' # downloads
                      /\ downloads'[run[r].id] =
                            TranscribeForwarderApply(downloads[run[r].id], p)
                      => p.seq = run[r].nrecv + 1]_vars

\* The forwarder has applied an event while a later one was waiting.
C19_Witness ==
    \E r \in DOMAIN run :
        /\ run[r].nrecv >= 2 /\ Len(run[r].tq) >= 2
        /\ run[r].id \in DOMAIN downloads
        /\ downloads[run[r].id].transcription_message = Some("Audio extracted")

\* C20: a step of clear_download leaves the id neither in the downloads
\* table nor in the cancel_senders map.
C20_ClearRemovesHandle ==
    [][\A id \in Ids :
          ClearDownload(id)
          => id \notin DOMAIN downloads' /\ id \notin DOMAIN cancel_senders']_vars

\* C15: for a duration d above 300 s the loop of transcribe_chunked works on
\* n chunks where n is the least number with d - 2 <= 298 * n, and at least 1;
\* chunk i (from 0) starts at i * 298, every chunk but the last is 300 s long
\* and the last is d minus its start; 700 s gives chunks at 0, 298 and 596,
\* the last 104 s long.
C15_ChunkArithmetic ==
    eng.engine = "plan" /\ eng.num_chunks > 0
    => LET d == eng.duration
           n == eng.num_chunks
           c == eng.chunks
       IN /\ n >= 1
          /\ 298 * (n - 1) < d - 2 /\ d - 2 <= 298 * n
          /\ Len(c) = n
          /\ \A i \in 0..(n - 1) :
                /\ c[i + 1].start = i * 298
                /\ c[i + 1].length = IF i < n - 1 THEN 300 ELSE d - i * 298
          /\ d = 700 =>
                c = << [start |-> 0, length |-> 300],
                       [start |-> 298, length |-> 300],
                       [start |-> 596, length |-> 104] >>

\* The schedule of a file of 700 s has been computed.
C15_Witness ==
    /\ eng.engine = "plan" /\ eng.duration = 700
    /\ eng.num_chunks = 3 /\ Len(eng.chunks) = 3

\* C14: when the segments of a chunk are merged into those of the chunks
\* before it, with the boundary at the start of the later chunk, no moment of
\* the overlap window (the CHUNK_OVERLAP_SECS from the boundary on) is
\* covered both by a segment of an earlier chunk and by a segment of the
\* later chunk, and every segment that lies outside the window is kept.
C14_MergeOverlap ==
    [][\A r \in DOMAIN run :
          WrChunkInfer(r) /\ eng'.idx = eng.idx + 1
          => LET lo == ChunkStart(eng.idx) * 1000
                 hi == lo + CHUNK_OVERLAP_SECS * 1000
                 prev == eng.all_segments
                 new == eng'.chunk_segments
                 merged == eng'.all_segments
                 Least(a, b) == IF a <= b THEN a ELSE b
                 Both(s, t) ==
                     Max(Max(s.start, t.start), lo) < Least(Least(s.end, t.end), hi)
             IN /\ \A i, j \in 1..Len(merged) :
                      merged[i].chunk < eng.idx /\ merged[j].chunk = eng.idx
                      => ~Both(merged[i], merged[j])
                /\ \A s \in Range(prev) \cup Range(new) :
                      s.end <= lo \/ s.start >= hi => s \in Range(merged)]_vars

\* C12: a step of a chunk loop taken while the cancellation flag is set, at
\* the top of an iteration or before a chunk's inference, extracts no chunk
\* and runs no inference, and leaves no chunk file behind.
C12_ChunkLoopObservesCancel ==
    [][\A r \in DOMAIN run :
          /\ flag[r]
          /\ \/ WrChunkExtract(r) \/ WrChunkInfer(r)
             \/ MsChunkExtract(r) \/ MsChunkInfer(r)
          => /\ eng'.spawned = eng.spawned
             /\ run'[r].files \cap ChunkFiles = {}]_vars

\* C13: a chunked transcription that has returned an error has gone through
\* every chunk, and no chunk has yielded text.
C13_FailedChunkSkipped ==
    /\ eng.engine \in {"whisper_rs", "moonshine"}
    /\ eng.num_chunks > 0
    /\ eng.result[1] = "Err"
    => eng.idx = eng.num_chunks /\ ~eng.yielded

\* C16: when the engine has come to its emptiness check and no inference has
\* returned text that is not blank, the engine has returned the
\* empty-transcript error and written no SRT file, and process_video neither
\* starts the mux nor has a caption file at the final location.
C16_EmptyTranscriptNoFile ==
    \A r \in DOMAIN run :
        /\ eng.engine \in {"whisper_rs", "moonshine"}
        /\ eng.reached_check
        /\ ~eng.yielded
        => /\ eng.result \in {Err(EmptyTranscriptMsg), Err(MsEmptyTranscriptMsg)}
           /\ run[r].files \cap {"generated_srt", "srt", "output"} = {}
           /\ "ffmpeg mux" \notin run[r].spawned
           /\ run[r].pc \notin {"pv_embed", "pv_embed_start", "pv_embed_wait"}
           /\ run[r].id \in DOMAIN downloads
              => downloads[run[r].id].status # "completed"

\* Every chunk of a long file came back blank and process_video has returned
\* the empty-transcript error.
C16_Witness ==
    \E r \in DOMAIN run :
        /\ eng.engine = "whisper_rs" /\ eng.num_chunks = 3 /\ eng.idx = 3
        /\ eng.reached_check /\ ~eng.yielded
        /\ run[r].pc = "pv_result"
        /\ run[r].result = Err(EmptyTranscriptMsg)

\* C17: an engine called with a model that is not installed returns a
\* not-installed error and has spawned no subprocess and run no inference.
C17_NotInstalledBeforeSpawn ==
    /\ eng.engine \in {"whisper_rs", "moonshine"}
    /\ eng.available /\ ~eng.installed
    /\ eng.result # NoResult
    => /\ eng.result \in {Err(ModelNotInstalledMsg), Err(MsModelNotInstalledMsg)}
       /\ eng.spawned = <<>>

\* C21: every caption of generate_srt_with_timestamps has between 1 and 12
\* words by the counting rule of the loop, and every caption but the one that
\* ends with the input ends at a sentence terminator or at the 12-word cap.
C21_CaptionWordBounds ==
    eng.engine = "parakeet_srt"
    => \A k \in 1..Len(eng.captions) :
          LET c == eng.captions[k] IN
            /\ 1 <= c.words /\ c.words <= 12
            /\ \/ IsSentenceEnd(c.token)
               \/ c.words = 12
               \/ c.last = eng.len - 1

\* The value of a digit character, -1 for any other character.
DigitValue(c) ==
    IF \E n \in 0..9 : DigitChars[n + 1] = c
    THEN CHOOSE n \in 0..9 : DigitChars[n + 1] = c
    ELSE -1

\* The string has the form HH:MM:SS,mmm.
IsSrtTime(str) ==
    /\ Len(str) = 12
    /\ str[3] = ":" /\ str[6] = ":" /\ str[9] = ","
    /\ \A i \in {1, 2, 4, 5, 7, 8, 10, 11, 12} : DigitValue(str[i]) >= 0

\* The milliseconds a string of the form HH:MM:SS,mmm stands for.
SrtTimeMillis(str) ==
    LET D(i) == DigitValue(str[i]) IN
      ((D(1) * 10 + D(2)) * 3600 + (D(4) * 10 + D(5)) * 60 + D(7) * 10 + D(8)) * 1000
      + D(10) * 100 + D(11) * 10 + D(12)

\* C23 as stated: for every duration d >= 0 the result has the form
\* HH:MM:SS,mmm and reads back as d with the fraction of a millisecond cut
\* off, so within 1 ms of d.
C23_FormatEveryDuration ==
    eng.engine = "format_srt_time" /\ eng.out # <<>>
    => /\ IsSrtTime(eng.out)
       /\ LET whole == eng.seconds.num \div eng.seconds.den
              frac == eng.seconds.num % eng.seconds.den
              ms == SrtTimeMillis(eng.out) - whole * 1000
          IN ms * eng.seconds.den <= frac * 1000
             /\ frac * 1000 < (ms + 1) * eng.seconds.den

\* C23 amended: the same for every duration below 100 hours.
C23_FormatBelow100Hours ==
    /\ eng.engine = "format_srt_time" /\ eng.out # <<>>
    /\ eng.seconds.num < 360000 * eng.seconds.den
    => /\ IsSrtTime(eng.out)
       /\ LET whole == eng.seconds.num \div eng.seconds.den
              frac == eng.seconds.num % eng.seconds.den
              ms == SrtTimeMillis(eng.out) - whole * 1000
          IN ms * eng.seconds.den <= frac * 1000
             /\ frac * 1000 < (ms + 1) * eng.seconds.den

\* 1 h 0 min 1.4998 s has been formatted as 01:00:01,499.
C23_Witness ==
    /\ eng.engine = "format_srt_time"
    /\ eng.seconds = Seconds(3601 * 5000 + 2499, 5000)
    /\ eng.out = <<"0", "1", ":", "0", "0", ":", "0", "1", ",", "4", "9", "9">>

\* C22: for a text with N >= 1 sentences that are not empty and a duration
\* d, generate_srt_from_text gives N captions, sentence k in caption k; the
\* first starts at 0, each ends where the next starts, none ends before it
\* starts, and the last ends at d exactly.
C22_ProportionalCaptions ==
    /\ eng.engine = "srt_from_text" /\ eng.returned
    /\ Len(Sentences(TrimStr(eng.text))) >= 1
    => LET c == eng.captions
           s == Sentences(TrimStr(eng.text))
           n == Len(s)
       IN /\ Len(c) = n
          /\ \A k \in 1..n :
                /\ c[k].num = k
                /\ c[k].text = Append(s[k], ".")
                /\ IsSrtTime(c[k].start) /\ IsSrtTime(c[k].end)
                /\ SrtTimeMillis(c[k].start) <= SrtTimeMillis(c[k].end)
                /\ k < n => c[k].end = c[k + 1].start
          /\ SrtTimeMillis(c[1].start) = 0
          /\ SrtTimeMillis(c[n].end) * eng.duration.den = eng.duration.num * 1000

\* C24: the list a chunked transcription hands to the SRT writer is in
\* non-decreasing order of start_ms, and it holds the segments of the merge.
C24_SegmentsSorted ==
    /\ eng.engine = "whisper_rs"
    /\ eng.num_chunks > 0
    /\ eng.result = Ok("generated_srt")
    => /\ \A i, j \in 1..Len(eng.srt_segments) :
             i < j => eng.srt_segments[i].start <= eng.srt_segments[j].start
       /\ Len(eng.srt_segments) = Len(eng.all_segments)
       /\ Range(eng.srt_segments) = Range(eng.all_segments)

\* A chunked transcription whose merged list was out of order has written
\* its SRT file.
C24_Witness ==
    /\ eng.engine = "whisper_rs" /\ eng.num_chunks = 3
    /\ eng.result = Ok("generated_srt")
    /\ \E i \in 1..(Len(eng.all_segments) - 1) :
          eng.all_segments[i].start > eng.all_segments[i + 1].start

\* C27 as stated: a merge of two lists that are not empty keeps exactly the
\* earlier segments with end <= boundary or start < boundary, in their
\* order, followed by exactly the new segments with start >= boundary, in
\* their order; and no earlier segment that starts at or after the boundary
\* is left in the list.
C27_MergeRule ==
    [][\A r \in DOMAIN run :
          /\ WrChunkInfer(r) /\ eng'.idx = eng.idx + 1
          /\ eng.all_segments # <<>> /\ eng'.chunk_segments # <<>>
          => LET boundary == ChunkStart(eng.idx) * 1000
                 prev == eng.all_segments
                 new == eng'.chunk_segments
                 merged == eng'.all_segments
                 kept == {i \in 1..Len(prev) :
                            prev[i].end <= boundary \/ prev[i].start < boundary}
                 added == {i \in 1..Len(new) : new[i].start >= boundary}
             IN /\ Len(merged) = Cardinality(kept) + Cardinality(added)
                /\ \A i \in kept :
                      merged[Cardinality({j \in kept : j <= i})] = prev[i]
                /\ \A i \in added :
                      merged[Cardinality(kept) + Cardinality({j \in added : j <= i})]
                         = new[i]
                /\ \A i \in 1..Len(prev) :
                      prev[i].start >= boundary
                      => prev[i] \notin Range(merged)]_vars

\* C27 amended: the same, where the earlier segments that are dropped are
\* those that start at or after the boundary and end after it.
C27_MergeRuleExact ==
    [][\A r \in DOMAIN run :
          /\ WrChunkInfer(r) /\ eng'.idx = eng.idx + 1
          /\ eng.all_segments # <<>> /\ eng'.chunk_segments # <<>>
          => LET boundary == ChunkStart(eng.idx) * 1000
                 prev == eng.all_segments
                 new == eng'.chunk_segments
                 merged == eng'.all_segments
                 kept == {i \in 1..Len(prev) :
                            prev[i].end <= boundary \/ prev[i].start < boundary}
                 added == {i \in 1..Len(new) : new[i].start >= boundary}
             IN /\ Len(merged) = Cardinality(kept) + Cardinality(added)
                /\ \A i \in kept :
                      merged[Cardinality({j \in kept : j <= i})] = prev[i]
                /\ \A i \in added :
                      merged[Cardinality(kept) + Cardinality({j \in added : j <= i})]
                         = new[i]
                /\ \A i \in 1..Len(prev) :
                      prev[i].start >= boundary /\ prev[i].end > boundary
                      => prev[i] \notin Range(merged)]_vars

\* Chunk 1 has been merged into a list that held a segment of chunk 0 lying
\* wholly before the boundary; the segments of both chunks are in the list.
C27_Witness ==
    /\ eng.engine = "whisper_rs" /\ eng.idx = 2
    /\ eng.chunk_segments # <<>>
    /\ \E s \in Range(eng.all_segments) : s.chunk = 0 /\ s.end <= 298000
    /\ \E s \in Range(eng.all_segments) : s.chunk = 1 /\ s.start >= 298000

C26_CancelledBeforeErrorHandler ==
    [][\A r \in DOMAIN run :
          /\ \/ DownloadResult(r) /\ run[r].result = Err(DownloadCancelledMsg)
             \/ TranscribeResult(r) /\ run[r].result = Err(CancelledMsg)
          /\ run[r].id \in DOMAIN downloads
          => /\ downloads[run[r].id].status = "cancelled"
             /\ downloads'[run[r].id].status = "cancelled"
             /\ downloads'[run[r].id].error = downloads[run[r].id].error]_vars

\* C28: whenever process_video has returned, with Ok or with an error, the
\* path of the media file holds the untouched original or the complete
\* subtitled file, never nothing; a return of Ok has renamed the original
\* to the backup, renamed the subtitled file to the original, deleted the
\* backup and deleted the caption file, in that order.
C28_FinalizeAllOrNothing ==
    \A r \in Runs :
        run[r].pc = "pv_result" =>
            /\ run[r].video \in {"original", "subtitled"}
            /\ run[r].result[1] = "Ok" =>
                   /\ run[r].video = "subtitled"
                   /\ run[r].files \cap {"backup", "output", "srt"} = {}
            /\ run[r].result[1] = "Err" => run[r].video = "original"

C30_NoLockWhileAwaiting ==
    eng.engine = "locks" =>
        /\ \A task \in LockTasks :
              eng.pc[task] \in AwaitingPcs => eng.lock # task
        /\ \A task \in LockTasks \ {"cancel_download"} :
              eng.lock = task => eng.pc[task] \in CriticalPcs

\* The pipeline awaits inside process_video, after two critical sections of
\* its own, while a forwarder holds the lock.
C30_Witness ==
    /\ eng.engine = "locks"
    /\ eng.kind = "download"
    /\ eng.pc["pipeline"] = "pv_inference"
    /\ eng.lock = "transcribe_forwarder"

\* C31: a transcription progress event whose stage is "complete" is consumed
\* by the forwarder without changing the task table and without emitting an
\* event; and the status of a task that is transcribed (a local task, or a
\* download with subtitles) becomes "completed" only in the step of the
\* pipeline that handles the result of process_video.
C31_CompleteOnlyByResultHandler ==
    [][/\ \A r \in Runs :
             /\ TranscribeForwarder(r)
             /\ Recv(run[r].tq)[1].stage = "complete"
             => downloads' = downloads /\ ev' = <<>>
       /\ \A r \in Runs :
             /\ run[r].kind = "local" \/ run[r].subs
             /\ run[r].id \in DOMAIN downloads \cap DOMAIN downloads'
             /\ downloads[run[r].id].status # "completed"
             /\ downloads'[run[r].id].status = "completed"
             => run[r].pc = "pv_result" /\ TranscribeResult(r)]_vars

\* C32: the Moonshine chunked transcription cuts, for i = 0, 1, .., the
\* consecutive windows [30i, 30i + 30), as many as are needed to cover the
\* audio and no more, and the text it returns is the trimmed texts of the
\* chunks, in chunk order, with one space between two of them, the chunks
\* whose inference failed or returned blank text left out.
C32_MoonshineChunkedTranscript ==
    eng.engine = "moonshine" /\ eng.num_chunks > 0 =>
        /\ Len(eng.windows) <= eng.num_chunks
        /\ CHUNK_DURATION * eng.num_chunks >= eng.duration
        /\ CHUNK_DURATION * (eng.num_chunks - 1) < eng.duration
        /\ \A k \in 1..Len(eng.windows) :
              /\ eng.windows[k].start = CHUNK_DURATION * (k - 1)
              /\ eng.windows[k].duration = CHUNK_DURATION
        /\ eng.transcript # None =>
              /\ Len(eng.windows) = eng.num_chunks
              /\ Len(eng.outcomes) = eng.num_chunks
              /\ LET Text(k) == IF eng.outcomes[k][1] = "Ok"
                                THEN Trim(eng.outcomes[k][2]) ELSE ""
                     Expected[k \in 0..eng.num_chunks] ==
                         IF k = 0 THEN ""
                         ELSE IF Text(k) = "" THEN Expected[k - 1]
                         ELSE IF Expected[k - 1] = "" THEN Text(k)
                         ELSE Expected[k - 1] \o " " \o Text(k)
                 IN eng.transcript = Some(Expected[eng.num_chunks])

\* Three chunks of a file of 70 s: text, a failed inference, text with white
\* space around it; the two texts are returned with one space between them.
C32_Witness ==
    /\ eng.engine = "moonshine"
    /\ eng.duration = 70
    /\ eng.outcomes = <<Ok("hello"), Err(SherpaFailedMsg), Ok(" world ")>>
    /\ eng.transcript = Some("hello world")

\* C33: a cancel request on a local task is never lost: once cancel_download
\* has looked for the task's sender, no pipeline of the task runs with its
\* cancellation flag unset; in particular start_local_transcription never
\* writes "transcribing:extracting" over "cancelled" for a pipeline whose
\* flag is unset.
C33_CancelNeverLost ==
    \A r \in Runs :
        /\ run[r].kind = "local"
        /\ run[r].pc \in PvPcs
        /\ run[r].id \in cancel_req
        => flag[r]

\* C34: under fair scheduling, every task whose pipeline has been started is
\* in the end, and from then on, in a terminal status ("completed", "error"
\* or "cancelled") for as long as it is in the table; it is not left in
\* "downloading" or "transcribing:<phase>" once its pipeline and forwarders
\* have finished.
C34_EventuallyTerminal ==
    \A id \in Ids :
        [](/\ id \in DOMAIN downloads
           /\ \E r \in Runs : run[r].id = id /\ run[r].pc # "idle"
           => <>[](id \in DOMAIN downloads
                   => downloads[id].status \in Terminal))

\* C35: two distinct tasks whose pipelines run at the same time never use the
\* same temporary path: the extracted-audio file and the chunk directory one
\* pipeline is using are not used by the other.
C35_NoSharedTempPath ==
    eng.engine = "paths" =>
        \A t \in PathTasks, u \in PathTasks :
            t # u => eng.task[t].temp \cap eng.task[u].temp = {}

\* The locks task t holds, and the place of a lock in the order config,
\* downloads, cancel_senders.
HeldBy(t) == {l \in LockNames : eng.held[l] = t}
Rank(lock) == CHOOSE i \in 1..Len(AppLocks) : AppLocks[i] = lock

\* Task t is at a lock().await whose lock another task (or itself) holds.
Blocked(t) == AtOp(t, "lock") /\ eng.held[OpLock(t)] # Unlocked

\* A set of tasks none of which can ever move: each waits for a lock held
\* inside the set or by a task that has returned.
Deadlocked ==
    \E S \in SUBSET OrderTasks :
        /\ S # {}
        /\ \A t \in S :
              /\ Blocked(t)
              /\ \/ eng.held[OpLock(t)] \in S
                 \/ eng.pc[eng.held[OpLock(t)]] = Returned(eng.held[OpLock(t)])

\* C36: the locks are taken in the order config, downloads, cancel_senders:
\* a task at a lock().await holds only locks that come before the awaited one
\* (so none waits for downloads holding cancel_senders, or for config holding
\* downloads), and no interleaving of the commands, pipelines and forwarders
\* deadlocks.
C36_LockOrder ==
    eng.engine = "lock_order" =>
        /\ \A t \in OrderTasks :
              AtOp(t, "lock") =>
                  \A l \in HeldBy(t) : Rank(l) < Rank(OpLock(t))
        /\ ~Deadlocked

\* cancel_download waits for cancel_senders holding downloads while
\* start_download waits for downloads holding config.
C36_Witness ==
    /\ eng.engine = "lock_order"
    /\ Blocked("cancel_download") /\ HeldBy("cancel_download") = {"downloads"}
    /\ Blocked("start_download") /\ HeldBy("start_download") = {"config"}
    /\ Blocked("update_config")

\* C37: for a duration d above 300 s the chunks of transcribe_chunked cover
\* the whole of [0, d) (the first starts at 0, the last ends at d, none starts
\* after the one before it ends), each chunk overlaps the next by exactly
\* 2 s, and every chunk, the last included, is longer than 2 s and at most
\* 300 s long, so no chunk is skipped as shorter than 0.5 s.
C37_ChunksCoverAudio ==
    eng.engine = "plan" /\ eng.num_chunks > 0 /\ eng.duration > 300
    => LET d == eng.duration
           n == eng.num_chunks
           c == eng.chunks
           End(i) == c[i].start + c[i].length
       IN /\ Len(c) = n
          /\ \A i \in 0..(n - 1) : ~TooShort(ChunkDuration(i, n, d))
          /\ c[1].start = 0
          /\ End(n) = d
          /\ \A i \in 1..(n - 1) : End(i) - c[i + 1].start = 2
          /\ \A i \in 1..n : c[i].length > 2 /\ c[i].length <= 300

\* The schedule of a file of 599 s: the last chunk is 3 s long.
C37_Witness ==
    /\ eng.engine = "plan" /\ eng.duration = 599
    /\ eng.num_chunks = 3 /\ Len(eng.chunks) = 3
    /\ eng.chunks[3] = [start |-> 596, length |-> 3]

\* C38: in every state of the task table a task whose status is "completed"
\* has progress 100, and a task whose status is "error" has an error message
\* that is not empty.
C38_TerminalFieldsConsistent ==
    \A id \in DOMAIN downloads :
        /\ downloads[id].status = "completed" => downloads[id].progress = 100
        /\ downloads[id].status = "error"
              => /\ downloads[id].error # None
                 /\ downloads[id].error[1] # ""

\* A local transcription has been marked completed by its result handler.
C38_Witness ==
    \E r \in Runs :
        /\ run[r].kind = "local" /\ run[r].pc = "done"
        /\ run[r].id \in DOMAIN downloads
        /\ downloads[run[r].id].status = "completed"
        /\ downloads[run[r].id].progress = 100

\* C39: an id that was given to a task and is no longer in the table (only
\* clear_download and clear_completed_downloads remove one) is not in the
\* table after any step, and a step of that task's pipeline or forwarders
\* then leaves the whole table as it is and emits no download-progress
\* snapshot.
C39_ClearedNeverReappears ==
    [][\A id \in used \ DOMAIN downloads :
          /\ id \notin DOMAIN downloads'
          /\ \A r \in Runs :
                run[r].id = id /\ run'[r] # run[r]
                => /\ downloads' = downloads
                   /\ \A i \in 1..Len(ev') : ev'[i][1] # "download-progress"]_vars

\* The result handler of a download without subtitles has run on a task that
\* was cleared while yt-dlp was running; the earlier download is still there.
C39_Witness ==
    \E r \in Runs :
        /\ run[r].kind = "download" /\ ~run[r].subs
        /\ run[r].pc = "done" /\ run[r].video = "original"
        /\ run[r].id \in used \ (DOMAIN downloads \cup was_completed)
        /\ EarlierId \in DOMAIN downloads

====
